---- MODULE Spec2Model ----
(***************************************************************************)
(* A model of the COVID-19 analysis program: CSV ingestion                 *)
(* (Library/data_utils.py), cleaning, the aggregation and filter functions *)
(* (Library/stats.py, Library/advanced_metrics.py), the GUI handlers of     *)
(* Scripts/gui.py that call them on the shared table data_page.df, and the *)
(* sidebar of launch_gui with its page switches and its animation.         *)
(*                                                                         *)
(* A pandas DataFrame is a record [cols, dtype, rows]: the ordered column  *)
(* names, the dtype of each column, and the rows as functions from column  *)
(* name to cell.  A nullable numeric cell of a CSV-shaped table is <<>>    *)
(* (NaN) or <<n>>; the cells of a table read from MySQL are plain values.  *)
(***************************************************************************)
EXTENDS Integers, Sequences, FiniteSets, TLC

VARIABLES
    dir,      \* os.listdir(CSV_FOLDER_PATH): the snapshot files, in listing order
    db,       \* the rows of the covid_data table
    df,       \* data_page.df: NoDf until a handler sets the attribute
    op,       \* the handler or library call that ran last, with its arguments
    arg,      \* the table that call received, as it was when the call began
    result,   \* what the call returned: a table, or the exception it raised
    conns,    \* the connections to the MySQL server that are open
    viz_df,   \* visualization_page.df: NoDf until its Load Data sets it
    out,      \* the file written last under Output/: NoFile until one is
    menu,     \* the sidebar: its width, the toggle button, the timers pending
    page,     \* the page that page_frame shows
    view      \* the widgets of that page: status label, table, button_frame

vars == <<dir, db, df, op, arg, result, conns, viz_df, out, menu, page, view>>

\* ------------------------------------------------------------------ bounds
MaxFiles == 3
MaxRawRows == 3
MaxDbRows == 3
MaxWaveRows == 4
MaxConns == 2
MaxStoreRows == 3
MaxTimers == 3

\* --------------------------------------------------------------- constants
TARGET_COUNTRIES ==
    {"India", "Brazil", "Russia", "United Kingdom", "Egypt", "Italy", "South Africa"}

MinYear == 2021
MaxYear == 2023

\* root.after(ms=10, func=expand_menu), root.after(ms=12, func=shrink_menu)
ExpandMs == 10
ShrinkMs == 12

NoDf == [kind |-> "none"]
NoFile == [kind |-> "none"]
NoResult == [kind |-> "none"]
NaN == <<>>
NaNStr == "<NaN>"

\* launch_gui: the sidebar is configured 50 wide and the toggle button
\* starts with expand_menu_sidebar as its command (and the open icon).
\* width is what winfo_width() returns, req the width configured last.
MenuClosed ==
    [width |-> 50, req |-> 50, command |-> "expand_menu_sidebar", timers |-> <<>>]

\* a page function has just built its widgets: an empty status label, an
\* empty table, no button in button_frame
FreshPage == [status |-> "", tree |-> <<>>, buttons |-> NoResult]

Raise(exc) == [kind |-> "error", exc |-> exc]
Table(cols, dtype, rows) ==
    [kind |-> "table", cols |-> cols, dtype |-> dtype, rows |-> rows]
IsTable(x) == x.kind = "table"

\* ------------------------------------------------------------------- dates
Date(y, m, d) == [y |-> y, m |-> m, d |-> d]

DaysInMonth(y, m) ==
    IF m \in {4, 6, 9, 11} THEN 30
    ELSE IF m = 2
    THEN (IF (y % 4 = 0 /\ y % 100 # 0) \/ y % 400 = 0 THEN 29 ELSE 28)
    ELSE 31

DateLess(a, b) ==
    \/ a.y < b.y
    \/ a.y = b.y /\ a.m < b.m
    \/ a.y = b.y /\ a.m = b.m /\ a.d < b.d

\* datetime.strptime(stem, "%m-%d-%Y").date(): the stem must have the shape
\* digits-digits-digits with a month 1..12, a day of that month and a year
\* 1..9999; anything else raises ValueError.
StrptimeOK(stem) ==
    /\ stem.shape = "n-n-n"
    /\ stem.a \in 1..12
    /\ stem.c \in 1..9999
    /\ stem.b \in 1..DaysInMonth(stem.c, stem.a)

Strptime(stem) == Date(stem.c, stem.a, stem.b)

\* ------------------------------------------------------- sequence helpers
Range(s) == {s[i] : i \in DOMAIN s}

Contains(s, x) == \E i \in DOMAIN s : s[i] = x

IndexOf(s, x) == CHOOSE i \in DOMAIN s : s[i] = x /\ \A j \in 1..(i - 1) : s[j] # x

\* ------------------------------------------------------------------ files
\* A column header of a snapshot is a sequence of pieces, the separators
\* " " and "/" being pieces of their own: "Province/State" is
\* <<"Province", "/", "State">>.
RECURSIVE LStrip(_)
LStrip(h) == IF h # <<>> /\ Head(h) = " " THEN LStrip(Tail(h)) ELSE h

RECURSIVE RStrip(_)
RStrip(h) ==
    IF h # <<>> /\ h[Len(h)] = " " THEN RStrip(SubSeq(h, 1, Len(h) - 1)) ELSE h

\* c.strip().replace('/', '_').replace(' ', '_')
NormalizeHeader(h) ==
    LET s == RStrip(LStrip(h))
    IN  [i \in DOMAIN s |-> IF s[i] \in {"/", " "} THEN "_" ELSE s[i]]

H_Province == <<"Province", "_", "State">>
H_Country == <<"Country", "_", "Region">>
H_Confirmed == <<"Confirmed">>
H_Deaths == <<"Deaths">>
H_Recovered == <<"Recovered">>

CsvCols ==
    <<"Province_State", "Country_Region", "Confirmed", "Deaths", "Recovered",
      "Lat", "Long_", "report_date">>

CountCols == {"Confirmed", "Deaths", "Recovered"}

\* read_csv gives a count column float64 when a cell of it is empty, int64
\* otherwise; names and dates are object columns, coordinates float64.
CsvDtype(rows) ==
    [c \in Range(CsvCols) |->
        IF c \in {"Province_State", "Country_Region", "report_date"} THEN "object"
        ELSE IF c \in CountCols
             THEN (IF \E i \in DOMAIN rows : rows[i][c] = NaN
                   THEN "float64" ELSE "int64")
        ELSE "float64"]

\* The snapshot files the directory is drawn from.  A file has a name (stem
\* and extension) and, when it is a CSV, a header and positional rows.
Stem(a, b, c) == [shape |-> "n-n-n", a |-> a, b |-> b, c |-> c]

NewHeader ==
    <<H_Province, H_Country, <<"Lat">>, <<"Long", "_">>, H_Confirmed, H_Deaths,
      H_Recovered>>
OldHeader ==
    <<<<"Province", "/", "State">>, <<"Country", "/", "Region">>,
      <<" ", "Confirmed">>, <<"Deaths", " ">>, <<"Recovered">>>>

FilePool ==
    { [id |-> "01-15-2021.csv", stem |-> Stem(1, 15, 2021), ext |-> ".csv",
       header |-> NewHeader,
       rows |-> << <<"Goa", "India", <<19>>, <<75>>, <<5>>, <<2>>, <<3>>>>,
                   <<"New York", "US", <<40>>, <<-74>>, <<9>>, <<1>>, NaN>> >>],
      [id |-> "06-30-2022.csv", stem |-> Stem(6, 30, 2022), ext |-> ".csv",
       header |-> OldHeader,
       rows |-> << <<NaNStr, "Brazil", <<7>>, NaN, <<4>>>>,
                   <<NaNStr, "France", <<6>>, <<1>>, <<2>>>> >>],
      [id |-> "12-31-2023.csv", stem |-> Stem(12, 31, 2023), ext |-> ".csv",
       header |-> NewHeader,
       rows |-> << <<NaNStr, "Egypt", NaN, NaN, NaN, <<1>>, <<0>>>> >>],
      [id |-> "2-29-2020.csv", stem |-> Stem(2, 29, 2020), ext |-> ".csv",
       header |-> NewHeader,
       rows |-> << <<"Goa", "India", <<19>>, <<75>>, <<1>>, <<0>>, <<0>>>> >>],
      [id |-> "01-01-2024.csv", stem |-> Stem(1, 1, 2024), ext |-> ".csv",
       header |-> NewHeader,
       rows |-> << <<NaNStr, "Italy", <<41>>, <<12>>, <<8>>, <<3>>, <<2>>>> >>],
      [id |-> "README.md", stem |-> [shape |-> "text", a |-> 0, b |-> 0, c |-> 0], ext |-> ".md",
       header |-> <<>>, rows |-> <<>>],
      [id |-> "notes.csv", stem |-> [shape |-> "text", a |-> 0, b |-> 0, c |-> 0], ext |-> ".csv",
       header |-> <<>>, rows |-> <<>>],
      [id |-> "02-30-2021.csv", stem |-> Stem(2, 30, 2021), ext |-> ".csv",
       header |-> NewHeader,
       rows |-> << <<NaNStr, "Italy", <<41>>, <<12>>, <<8>>, <<3>>, <<2>>>> >>] }

\* The listings of at most MaxFiles distinct files, in any listing order.
RECURSIVE Listings(_)
Listings(n) ==
    IF n = 0 THEN {<<>>}
    ELSE LET shorter == Listings(n - 1)
         IN  shorter \cup
             {Append(l, f) : l \in {s \in shorter : Len(s) = n - 1},
                             f \in FilePool}

DistinctListings ==
    {l \in Listings(MaxFiles) : \A i, j \in DOMAIN l : i # j => l[i].id # l[j].id}

\* ---------------------------------------------------------- load_all_csvs
\* if report_date.year < 2021 or report_date.year > 2023: continue
OutsideYearWindow_Wide(report_date) ==
    report_date.y < MinYear - 1 \/ report_date.y > MaxYear

OutsideYearWindow(report_date) ==
    report_date.y < MinYear \/ report_date.y > MaxYear

\* df[df['Country_Region'].isin(TARGET_COUNTRIES)]
\* One pass of the loop body for one file: "skip" (continue), an exception,
\* or "rows" with the frame appended to all_data.
LoadFile(f) ==
    IF f.ext # ".csv" THEN [kind |-> "skip"]
    ELSE IF ~StrptimeOK(f.stem) THEN Raise("ValueError")
    ELSE LET report_date == Strptime(f.stem)
         IN  IF OutsideYearWindow(report_date)
             THEN [kind |-> "skip"]
             ELSE
             LET header == [i \in DOMAIN f.header |-> NormalizeHeader(f.header[i])]
                 required == {H_Province, H_Country, H_Confirmed, H_Deaths, H_Recovered}
                 Cell(r, h, default) ==
                     IF Contains(header, h) THEN r[IndexOf(header, h)] ELSE default
                 Row(r) ==
                     [Province_State |-> Cell(r, H_Province, NaNStr),
                      Country_Region |-> Cell(r, H_Country, NaNStr),
                      Confirmed |-> Cell(r, H_Confirmed, NaN),
                      Deaths |-> Cell(r, H_Deaths, NaN),
                      Recovered |-> Cell(r, H_Recovered, NaN),
                      Lat |-> Cell(r, <<"Lat">>, <<0>>),
                      Long_ |-> Cell(r, <<"Long", "_">>, <<0>>),
                      report_date |-> report_date]
                 all == [i \in DOMAIN f.rows |-> Row(f.rows[i])]
             IN  IF ~(required \subseteq Range(header)) THEN Raise("KeyError")
                 ELSE [kind |-> "rows",
                       rows |-> SelectSeq(all, LAMBDA x :
                                    x.Country_Region \in TARGET_COUNTRIES)]

RECURSIVE Concat(_)
Concat(frames) ==
    IF frames = <<>> THEN <<>> ELSE Head(frames) \o Concat(Tail(frames))

\* The loop over os.listdir and the final pd.concat(all_data, ignore_index=True),
\* which raises ValueError on an empty list.
RECURSIVE LoadLoop(_, _, _)
LoadLoop(listing, i, all_data) ==
    IF i > Len(listing)
    THEN IF all_data = <<>> THEN Raise("ValueError")
         ELSE LET rows == Concat(all_data)
              IN  Table(CsvCols, CsvDtype(rows), rows)
    ELSE LET got == LoadFile(listing[i])
         IN  CASE got.kind = "skip" -> LoadLoop(listing, i + 1, all_data)
               [] got.kind = "error" -> got
               [] OTHER -> LoadLoop(listing, i + 1, Append(all_data, got.rows))

load_all_csvs(folder) == LoadLoop(folder, 1, <<>>)

\* gui.py handle_load_data: no try/except, so an exception of load_all_csvs
\* leaves data_page.df as it was and the status label at "Loading...".
handle_load_data ==
    /\ page = "data"
    /\ op' = [name |-> "load_all_csvs"]
    /\ arg' = NoDf
    /\ result' = load_all_csvs(dir)
    /\ df' = IF IsTable(result') THEN result' ELSE df
    /\ view' = IF IsTable(result')
               THEN [view EXCEPT !.status = "loaded", !.tree = result'.rows]
               ELSE [view EXCEPT !.status = "loading"]
    /\ UNCHANGED <<dir, db, conns, viz_df, out, menu, page>>

InitLoad ==
    /\ dir \in DistinctListings
    /\ db = <<>>
    /\ df = NoDf
    /\ op = [name |-> "start"]
    /\ arg = NoDf
    /\ result = NoResult
    /\ conns = 0
    /\ viz_df = NoDf
    /\ out = NoFile
    /\ menu = MenuClosed
    /\ page = "data"
    /\ view = FreshPage

NextLoad == handle_load_data

SpecLoad == InitLoad /\ [][NextLoad]_vars

\* C1: every row of the table load_all_csvs returns has a country of the
\* allowlist and a report date of 2021, 2022 or 2023, and that date is the
\* one parsed from the name of a listed CSV file that holds the row.
C1_LoadedRowsAllowed ==
    (op.name = "load_all_csvs" /\ IsTable(result)) =>
        \A i \in DOMAIN result.rows :
            LET r == result.rows[i]
            IN  /\ r.Country_Region \in
                     {"India", "Brazil", "Russia", "United Kingdom", "Egypt",
                      "Italy", "South Africa"}
                /\ r.report_date.y \in {2021, 2022, 2023}
                /\ \E k \in DOMAIN dir :
                     /\ dir[k].ext = ".csv"
                     /\ dir[k].stem.shape = "n-n-n"
                     /\ r.report_date =
                            Date(dir[k].stem.c, dir[k].stem.a, dir[k].stem.b)
                     /\ \E j \in DOMAIN dir[k].rows :
                          /\ dir[k].rows[j][1] = r.Province_State
                          /\ dir[k].rows[j][2] = r.Country_Region

\* A load that returned rows of two files, from a directory that also held
\* a file of another year and rows of a country outside the allowlist.
C1_Witness ==
    /\ op.name = "load_all_csvs"
    /\ IsTable(result)
    /\ Len(result.rows) >= 2
    /\ \E i, j \in DOMAIN result.rows :
         result.rows[i].report_date # result.rows[j].report_date
    /\ \E k \in DOMAIN dir : dir[k].stem.c \notin {0, 2021, 2022, 2023}
    /\ \E k \in DOMAIN dir : \E j \in DOMAIN dir[k].rows :
         dir[k].rows[j][2] \notin TARGET_COUNTRIES

\* -------------------------------------------------------------- clean_data
\* Python's order of the country names (str comparison).
CountryOrder ==
    <<"Brazil", "Egypt", "India", "Italy", "Russia", "South Africa", "United Kingdom">>

StrLess(a, b) == IndexOf(CountryOrder, a) < IndexOf(CountryOrder, b)

\* The sort key ['Country_Region', 'report_date'], both ascending.
KeyLess(a, b) ==
    \/ StrLess(a.Country_Region, b.Country_Region)
    \/ a.Country_Region = b.Country_Region /\ DateLess(a.report_date, b.report_date)

\* sort_values on two keys goes through lexsort_indexer, a stable sort: a
\* row is placed behind every row already placed whose key is not greater.
RECURSIVE InsertStable_BeforeEquals(_, _)
InsertStable_BeforeEquals(sorted, r) ==
    IF sorted = <<>> THEN <<r>>
    ELSE IF ~KeyLess(sorted[Len(sorted)], r)
         THEN Append(InsertStable_BeforeEquals(SubSeq(sorted, 1, Len(sorted) - 1), r),
                     sorted[Len(sorted)])
         ELSE Append(sorted, r)

RECURSIVE InsertStable(_, _)
InsertStable(sorted, r) ==
    IF sorted = <<>> THEN <<r>>
    ELSE IF KeyLess(r, sorted[Len(sorted)])
         THEN Append(InsertStable(SubSeq(sorted, 1, Len(sorted) - 1), r),
                     sorted[Len(sorted)])
         ELSE Append(sorted, r)

RECURSIVE SortValues(_)
SortValues(rows) ==
    IF rows = <<>> THEN <<>>
    ELSE InsertStable(SortValues(SubSeq(rows, 1, Len(rows) - 1)), rows[Len(rows)])

\* Series.fillna(value)
FillNa_Keep(cell, value) == cell

FillNa(cell, value) == IF cell = NaN THEN value ELSE cell

\* lines 116-121: the fills and the integer casts, assigned to the columns of
\* the frame the caller passed
FillColumns(t) ==
    Table(t.cols,
          [c \in DOMAIN t.dtype |-> IF c \in CountCols THEN "int64" ELSE t.dtype[c]],
          [i \in DOMAIN t.rows |->
              [t.rows[i] EXCEPT
                  !.Province_State = IF @ = NaNStr THEN "Unknown" ELSE @,
                  !.Confirmed = FillNa(@, <<0>>),
                  !.Deaths = FillNa(@, <<0>>),
                  !.Recovered = FillNa(@, <<0>>),
                  !.Lat = FillNa(@, <<0>>),
                  !.Long_ = FillNa(@, <<0>>)]])

\* the frame clean_data returns: the filled frame, sorted. On a frame
\* without the CSV columns the first lookup, df['Province_State'], raises.
clean_data(t) ==
    IF ~Contains(t.cols, "Province_State") THEN Raise("KeyError")
    ELSE LET filled == FillColumns(t)
         IN  Table(filled.cols, filled.dtype, SortValues(filled.rows))

\* gui.py handle_clean_data: a warning in the status label when data_page
\* has no df; no try/except around clean_data
handle_clean_data ==
    /\ page = "data"
    /\ IF df = NoDf
       THEN /\ op' = [name |-> "clean_data_refused"]
            /\ view' = [view EXCEPT !.status = "no data"]
            /\ UNCHANGED <<dir, db, df, arg, result, conns, viz_df, out, menu, page>>
       ELSE /\ op' = [name |-> "clean_data"]
            /\ arg' = df
            /\ result' = clean_data(df)
            /\ df' = IF IsTable(result') THEN result' ELSE df
            /\ view' = IF IsTable(result')
                       THEN [view EXCEPT !.status = "cleaned", !.tree = result'.rows]
                       ELSE [view EXCEPT !.status = "cleaning"]
            /\ UNCHANGED <<dir, db, conns, viz_df, out, menu, page>>

\* The raw tables: the rows load_all_csvs can hand over, in any order.
RawRowPool ==
    { [Province_State |-> x.Province_State, Country_Region |-> c,
       Confirmed |-> x.Confirmed, Deaths |-> x.Deaths, Recovered |-> x.Recovered,
       Lat |-> x.Lat, Long_ |-> x.Long_, report_date |-> d] :
      x \in { [Province_State |-> "Goa", Confirmed |-> <<5>>, Deaths |-> <<2>>,
               Recovered |-> <<3>>, Lat |-> <<19>>, Long_ |-> <<75>>],
              [Province_State |-> NaNStr, Confirmed |-> NaN, Deaths |-> <<1>>,
               Recovered |-> NaN, Lat |-> NaN, Long_ |-> <<7>>],
              [Province_State |-> "Kerala", Confirmed |-> <<8>>, Deaths |-> NaN,
               Recovered |-> <<0>>, Lat |-> <<2>>, Long_ |-> NaN] },
      c \in {"India", "Brazil"},
      d \in {Date(2021, 1, 15), Date(2022, 6, 30)} }

SeqsUpTo(S, n) == UNION {[1..k -> S] : k \in 0..n}

InitClean ==
    /\ dir = <<>>
    /\ db = <<>>
    /\ \E rows \in SeqsUpTo(RawRowPool, MaxRawRows) :
         df = Table(CsvCols, CsvDtype(rows), rows)
    /\ op = [name |-> "start"]
    /\ arg = NoDf
    /\ result = NoResult
    /\ conns = 0
    /\ viz_df = NoDf
    /\ out = NoFile
    /\ menu = MenuClosed
    /\ page = "data"
    /\ view = FreshPage

NextClean == handle_clean_data

SpecClean == InitClean /\ [][NextClean]_vars

\* C4: cleaning a cleaned table returns the same table: the same rows, in
\* the same order, with the same values.
C4_CleanIdempotent ==
    op.name = "clean_data" => clean_data(result) = result

\* A clean of a table that had nulls and was out of order.
C4_Witness ==
    /\ op.name = "clean_data"
    /\ result.rows # arg.rows
    /\ \E i \in DOMAIN arg.rows : arg.rows[i].Confirmed = NaN
    /\ \E i, j \in DOMAIN arg.rows :
         i < j /\ arg.rows[j].Country_Region = "Brazil"
               /\ arg.rows[i].Country_Region = "India"

C5_Filled(r) ==
    [r EXCEPT
        !.Province_State = IF @ = NaNStr THEN "Unknown" ELSE @,
        !.Confirmed = IF @ = NaN THEN <<0>> ELSE @,
        !.Deaths = IF @ = NaN THEN <<0>> ELSE @,
        !.Recovered = IF @ = NaN THEN <<0>> ELSE @,
        !.Lat = IF @ = NaN THEN <<0>> ELSE @,
        !.Long_ = IF @ = NaN THEN <<0>> ELSE @]

C5_KeyLeq(a, b) ==
    \/ IndexOf(CountryOrder, a.Country_Region) < IndexOf(CountryOrder, b.Country_Region)
    \/ /\ a.Country_Region = b.Country_Region
       /\ ~DateLess(b.report_date, a.report_date)

\* C5: the cleaned table holds exactly the input rows, a null province
\* replaced by "Unknown" and null counts and coordinates by 0, ascending by
\* country and then report date, rows of equal key in their input order.
C5_CleanResult ==
    op.name = "clean_data" =>
        /\ Len(result.rows) = Len(arg.rows)
        /\ \A c \in CountCols : result.dtype[c] = "int64"
        /\ \E perm \in [DOMAIN arg.rows -> DOMAIN arg.rows] :
             \* perm[i] is the input position of output row i
             /\ \A i, j \in DOMAIN perm : i # j => perm[i] # perm[j]
             /\ \A i \in DOMAIN perm : result.rows[i] = C5_Filled(arg.rows[perm[i]])
             /\ \A i, j \in DOMAIN perm :
                  i < j =>
                    /\ C5_KeyLeq(result.rows[i], result.rows[j])
                    /\ (C5_KeyLeq(result.rows[j], result.rows[i]) => perm[i] < perm[j])

\* A clean that had to fill a null, to move a row, and to keep two rows of
\* the same country and date, different in content, in their input order.
C5_Witness ==
    /\ op.name = "clean_data"
    /\ \E i \in DOMAIN arg.rows :
         arg.rows[i].Province_State = NaNStr /\ arg.rows[i].Lat = NaN
    /\ \E i \in DOMAIN arg.rows : result.rows[i] # C5_Filled(arg.rows[i])
    /\ \E i, j \in DOMAIN arg.rows :
         /\ i < j
         /\ arg.rows[i] # arg.rows[j]
         /\ arg.rows[i].Country_Region = arg.rows[j].Country_Region
         /\ arg.rows[i].report_date = arg.rows[j].report_date
    /\ Len(arg.rows) = 3

\* ------------------------------------------------- the persisted table shape
DbCols ==
    <<"country", "province", "date", "confirmed_cases", "deaths_cases",
      "recovered_cases", "latitude", "longitude">>

\* pd.read_sql: a MySQL DATE column arrives as an object column of
\* datetime.date values, the INT columns as int64, the FLOAT ones as float64.
DbDtype ==
    [c \in Range(DbCols) |->
        IF c \in {"country", "province", "date"} THEN "object"
        ELSE IF c \in {"latitude", "longitude"} THEN "float64"
        ELSE "int64"]

\* data_utils.py load_data_from_db: SELECT ... FROM covid_data
load_data_from_db == Table(DbCols, DbDtype, db)

\* df[name] = values (one value per row): a new column goes to the end, an
\* existing one is overwritten in place.
SetColumn(t, name, dt, values) ==
    Table(IF Contains(t.cols, name) THEN t.cols ELSE Append(t.cols, name),
          (name :> dt) @@ t.dtype,
          [i \in DOMAIN t.rows |-> (name :> values[i]) @@ t.rows[i]])

Ordinal(d) == d.y * 10000 + d.m * 100 + d.d

\* the values of a sequence of integers, ascending, repeats kept
RECURSIVE SortValuesInts(_)
SortValuesInts(xs) ==
    IF xs = <<>> THEN <<>>
    ELSE LET m == CHOOSE i \in DOMAIN xs : \A j \in DOMAIN xs : xs[i] <= xs[j]
         IN  <<xs[m]>> \o
             SortValuesInts([k \in 1..(Len(xs) - 1) |-> IF k < m THEN xs[k] ELSE xs[k + 1]])

RECURSIVE SortInts(_)
SortInts(S) ==
    IF S = {} THEN <<>>
    ELSE LET m == CHOOSE x \in S : \A y \in S : x <= y
         IN  <<m>> \o SortInts(S \ {m})

SortDates(S) ==
    LET ords == SortInts({Ordinal(d) : d \in S})
    IN  [i \in DOMAIN ords |-> CHOOSE d \in S : Ordinal(d) = ords[i]]

\* groupby sorts its keys: the countries of the rows, ascending
SortedCountries(rows) ==
    SelectSeq(CountryOrder, LAMBDA c : \E i \in DOMAIN rows : rows[i].country = c)

Max(S) == CHOOSE x \in S : \A y \in S : y <= x
RECURSIVE Sum(_)
Sum(s) == IF s = <<>> THEN 0 ELSE Head(s) + Sum(Tail(s))

Column(rows, c) == [i \in DOMAIN rows |-> rows[i][c]]

AggMax_First(rows) ==
    [confirmed_cases |-> rows[1].confirmed_cases,
     deaths_cases |-> rows[1].deaths_cases,
     recovered_cases |-> rows[1].recovered_cases]

\* .agg({'confirmed_cases': 'max', 'deaths_cases': 'max', 'recovered_cases': 'max'})
AggMax(rows) ==
    [confirmed_cases |-> Max(Range(Column(rows, "confirmed_cases"))),
     deaths_cases |-> Max(Range(Column(rows, "deaths_cases"))),
     recovered_cases |-> Max(Range(Column(rows, "recovered_cases")))]

AggSum_Last(rows) ==
    [confirmed_cases |-> IF rows = <<>> THEN 0 ELSE rows[Len(rows)].confirmed_cases,
     deaths_cases |-> IF rows = <<>> THEN 0 ELSE rows[Len(rows)].deaths_cases,
     recovered_cases |-> IF rows = <<>> THEN 0 ELSE rows[Len(rows)].recovered_cases]

\* [['confirmed_cases', 'deaths_cases', 'recovered_cases']].sum()
AggSum(rows) ==
    [confirmed_cases |-> Sum(Column(rows, "confirmed_cases")),
     deaths_cases |-> Sum(Column(rows, "deaths_cases")),
     recovered_cases |-> Sum(Column(rows, "recovered_cases"))]

StatCols == <<"confirmed_cases", "deaths_cases", "recovered_cases">>

ResultDtype(cols) ==
    [c \in Range(cols) |->
        IF c \in Range(StatCols) \/ c = "year" THEN "int64" ELSE "object"]

\* ---------------------------------------------------------------- stats.py
\* A library call returns ret, the value returned (or the exception), and
\* frame, the state in which it leaves the DataFrame object it was passed.
Call(ret, frame) == [ret |-> ret, frame |-> frame]

stats_by_country(t) ==
    LET cs == SortedCountries(t.rows)
        cols == <<"country">> \o StatCols
    IN  Call(Table(cols, ResultDtype(cols),
                [k \in DOMAIN cs |->
                    ("country" :> cs[k]) @@
                    AggMax(SelectSeq(t.rows, LAMBDA r : r.country = cs[k]))]),
             t)

\* x.strftime('%Y-%m'): the text "YYYY-MM", kept as the pair it is made of
StrftimeYm(d) == <<d.y, d.m>>

stats_by_month(t) ==
    LET t2 == SetColumn(t, "month_year", "object",
                        [i \in DOMAIN t.rows |-> StrftimeYm(t.rows[i].date)])
        cs == SortedCountries(t2.rows)
        MonthsOf(c) ==
            LET ms == {r.month_year : r \in {x \in Range(t2.rows) : x.country = c}}
                ords == SortInts({m[1] * 100 + m[2] : m \in ms})
            IN  [i \in DOMAIN ords |-> CHOOSE m \in ms : m[1] * 100 + m[2] = ords[i]]
        Group(c) ==
            LET ms == MonthsOf(c)
            IN  [k \in DOMAIN ms |->
                    [country |-> c, month_year |-> ms[k]] @@
                    AggMax(SelectSeq(t2.rows,
                        LAMBDA r : r.country = c /\ r.month_year = ms[k]))]
        cols == <<"country", "month_year">> \o StatCols
    IN  Call(Table(cols, ResultDtype(cols), Concat([k \in DOMAIN cs |-> Group(cs[k])])),
             t2)

stats_by_year(t) ==
    LET t2 == SetColumn(t, "year", "int64", [i \in DOMAIN t.rows |-> t.rows[i].date.y])
        cs == SortedCountries(t2.rows)
        Group(c) ==
            LET ys == SortInts({r.year : r \in {x \in Range(t2.rows) : x.country = c}})
            IN  [k \in DOMAIN ys |->
                    [country |-> c, year |-> ys[k]] @@
                    AggMax(SelectSeq(t2.rows,
                        LAMBDA r : r.country = c /\ r.year = ys[k]))]
        cols == <<"country", "year">> \o StatCols
    IN  Call(Table(cols, ResultDtype(cols), Concat([k \in DOMAIN cs |-> Group(cs[k])])),
             t2)

\* df[df['date'] == d].groupby('country')[[...]].sum().reset_index().
\* df['date'] == d with d a datetime.date: element-wise equality on an
\* object column of dates; a datetime64[ns] column is not comparable with a
\* datetime.date and the comparison is False on every row.
SumsOn(t, d) ==
    LET rows == SelectSeq(t.rows,
                          LAMBDA r : t.dtype["date"] = "object" /\ r.date = d)
        cs == SortedCountries(rows)
    IN  [k \in DOMAIN cs |->
            ("country" :> cs[k]) @@
            AggSum(SelectSeq(rows, LAMBDA r : r.country = cs[k]))]

stats_by_date_range(t, start_date, end_date) ==
    LET df_start == SumsOn(t, start_date)
        df_end == SumsOn(t, end_date)
        \* df_end.merge(df_start, on='country'): an inner join, in df_end's order
        StartOf(c) == CHOOSE r \in Range(df_start) : r.country = c
        joined == SelectSeq(df_end,
                      LAMBDA e : \E r \in Range(df_start) : r.country = e.country)
        cols == <<"country">> \o StatCols
    IN  Call(Table(cols, ResultDtype(cols),
                [k \in DOMAIN joined |->
                    [country |-> joined[k].country,
                     confirmed_cases |-> joined[k].confirmed_cases
                                          - StartOf(joined[k].country).confirmed_cases,
                     deaths_cases |-> joined[k].deaths_cases
                                          - StartOf(joined[k].country).deaths_cases,
                     recovered_cases |-> joined[k].recovered_cases
                                          - StartOf(joined[k].country).recovered_cases]]),
             t)

\* ------------------------------------------------------------ float values
\* The float results are exact rationals here: <<n, d>> is n/d in lowest
\* terms with d > 0.
RECURSIVE Gcd(_, _)
Gcd(a, b) == IF b = 0 THEN a ELSE Gcd(b, a % b)

Abs(x) == IF x < 0 THEN -x ELSE x

Rat(n, d) ==
    LET g == Gcd(Abs(n), Abs(d))
        sgn == IF d < 0 THEN -1 ELSE 1
    IN  <<sgn * (n \div g), sgn * (d \div g)>>

RatAdd(p, q) == Rat(p[1] * q[2] + q[1] * p[2], p[2] * q[2])

RECURSIVE RatSum(_)
RatSum(s) == IF s = <<>> THEN <<0, 1>> ELSE RatAdd(Head(s), RatSum(Tail(s)))

\* Series.mean() of a non-empty sequence of rationals
RatMean(s) == LET t == RatSum(s) IN Rat(t[1], t[2] * Len(s))

\* round(2) of the rational n/d, d > 0, in hundredths: numpy rounds the
\* scaled value to the nearest integer, a tie to the even one.
RoundHundredths(n, d) ==
    LET x == n * 100
        q == x \div d
        r == x - q * d
    IN  IF 2 * r < d THEN q
        ELSE IF 2 * r > d THEN q + 1
        ELSE IF q % 2 = 0 THEN q ELSE q + 1

\* A rounded float column holds hundredths, or a non-finite value.
Finite(h) == [f |-> "finite", h |-> h]
FloatNaN == [f |-> "nan", h |-> 0]

\* ------------------------------------------------------------- filter_data
\* int(text) of a combobox entry
IntOf(text) ==
    CASE text = "2021" -> 2021 [] text = "2022" -> 2022 [] text = "2023" -> 2023
      [] text = "1" -> 1 [] text = "2" -> 2 [] text = "3" -> 3 [] text = "4" -> 4
      [] text = "5" -> 5 [] text = "6" -> 6 [] text = "7" -> 7 [] text = "8" -> 8
      [] text = "9" -> 9 [] text = "10" -> 10 [] text = "11" -> 11
      [] text = "12" -> 12

FilterCols ==
    <<"country", "date", "confirmed_cases", "deaths_cases", "recovered_cases",
      "latitude", "longitude">>

\* lines 81-86: a filter that is set keeps the rows it matches, an empty
\* one ("" is falsy) keeps all
FilterKeeps_MonthAsYear(r, year, month, country) ==
    /\ (year # "" => r.date.y = IntOf(year))
    /\ (month # "" => r.date.y = IntOf(month))
    /\ (country # "" => r.country = country)

FilterKeeps(r, year, month, country) ==
    /\ (year # "" => r.date.y = IntOf(year))
    /\ (month # "" => r.date.m = IntOf(month))
    /\ (country # "" => r.country = country)

filter_data(t, year, month, country) ==
    IF ~Contains(t.cols, "date") \/ ~Contains(t.cols, "country")
    THEN Call(Raise("KeyError"), t)
    ELSE
    LET \* line 76: df['date'] = pd.to_datetime(df['date'], errors='coerce'),
        \* assigned to the frame the caller passed
        t2 == [t EXCEPT !.dtype = ("date" :> "datetime64[ns]") @@ t.dtype]
        kept == SelectSeq(t2.rows, LAMBDA r : FilterKeeps(r, year, month, country))
        cs == SortedCountries(kept)
        Group(c) ==
            LET ds == SortDates({r.date : r \in {x \in Range(kept) : x.country = c}})
            IN  [k \in DOMAIN ds |->
                    LET g == SelectSeq(kept, LAMBDA r : r.country = c /\ r.date = ds[k])
                    IN  [country |-> c, date |-> ds[k],
                         latitude |-> RatMean([i \in DOMAIN g |-> <<g[i].latitude, 1>>]),
                         longitude |-> RatMean([i \in DOMAIN g |-> <<g[i].longitude, 1>>])]
                        @@ AggSum(g)]
    IN  Call(Table(FilterCols,
                   [c \in Range(FilterCols) |->
                       IF c = "country" THEN "object"
                       ELSE IF c = "date" THEN "datetime64[ns]"
                       ELSE IF c \in Range(StatCols) THEN "int64" ELSE "float64"],
                   Concat([k \in DOMAIN cs |-> Group(cs[k])])),
             t2)

\* ------------------------------------------------------ advanced_metrics.py
WaveYearCols == <<"2021", "2022", "2023">>

WaveCols ==
    <<"country">> \o WaveYearCols \o <<"2021->2022 (%)", "2022->2023 (%)", "2021->2023 (%)">>

\* ((b - a) / a * 100).round(2) on int64 columns: a zero divisor raises
\* nothing and gives inf, -inf or NaN
PctChange_Guarded(a, b) ==
    IF a = 0 THEN Finite(0)
    ELSE IF a > 0 THEN Finite(RoundHundredths((b - a) * 100, a))
    ELSE Finite(RoundHundredths((a - b) * 100, -a))

PctChange(a, b) ==
    IF a = 0
    THEN IF b - a > 0 THEN [f |-> "inf", h |-> 0]
         ELSE IF b - a < 0 THEN [f |-> "-inf", h |-> 0] ELSE FloatNaN
    ELSE IF a > 0 THEN Finite(RoundHundredths((b - a) * 100, a))
    ELSE Finite(RoundHundredths((a - b) * 100, -a))

\* groupby(['country', 'year'])['confirmed_cases'].max().unstack().fillna(0)
\* .astype(int): one column per year that occurs in the table, ascending
YearTotal_Sum(rows, c, y) ==
    Sum(Column(SelectSeq(rows, LAMBDA r : r.country = c /\ r.date.y = y),
               "confirmed_cases"))

YearTotal(rows, c, y) ==
    LET g == SelectSeq(rows, LAMBDA r : r.country = c /\ r.date.y = y)
    IN  IF g = <<>> THEN 0 ELSE Max(Range(Column(g, "confirmed_cases")))

compare_wave_intensity(t) ==
    LET years == SortInts({t.rows[i].date.y : i \in DOMAIN t.rows})
        cs == SortedCountries(t.rows)
        \* yearly_data.columns = ['2021', '2022', '2023'] names the columns by
        \* position and raises ValueError unless there are three of them
        Total(c, k) == YearTotal(t.rows, c, years[k])
    IN  IF Len(years) # Len(WaveYearCols) THEN Call(Raise("ValueError"), t)
        ELSE Call(Table(WaveCols,
                    [c \in Range(WaveCols) |->
                        IF c = "country" THEN "object"
                        ELSE IF c \in Range(WaveYearCols) THEN "int64" ELSE "float64"],
                    [i \in DOMAIN cs |->
                        (WaveCols[1] :> cs[i]) @@
                        (WaveCols[2] :> Total(cs[i], 1)) @@
                        (WaveCols[3] :> Total(cs[i], 2)) @@
                        (WaveCols[4] :> Total(cs[i], 3)) @@
                        (WaveCols[5] :> PctChange(Total(cs[i], 1), Total(cs[i], 2))) @@
                        (WaveCols[6] :> PctChange(Total(cs[i], 2), Total(cs[i], 3))) @@
                        (WaveCols[7] :> PctChange(Total(cs[i], 1), Total(cs[i], 3)))]),
                  t)

RateCols == <<"country", "fatality_rate (%)", "recovery_rate (%)">>

MeanRate_RatioOfSums(g, col) ==
    Rat(Sum(Column(g, col)) * 100, Sum(Column(g, "confirmed_cases")))

\* (df[col] / df['confirmed_cases']) * 100 of each row, then the mean of
\* the rows of one country
MeanRate(g, col) ==
    RatMean([i \in DOMAIN g |-> Rat(g[i][col] * 100, g[i].confirmed_cases)])

calculate_rates(t) ==
    LET rows == SelectSeq(t.rows, LAMBDA r : r.confirmed_cases > 0)
        cs == SortedCountries(rows)
        Rates(c) ==
            LET g == SelectSeq(rows, LAMBDA r : r.country = c)
            IN  (RateCols[1] :> c) @@
                (RateCols[2] :> MeanRate(g, "deaths_cases")) @@
                (RateCols[3] :> MeanRate(g, "recovered_cases"))
    IN  Call(Table(RateCols,
                   [c \in Range(RateCols) |-> IF c = "country" THEN "object" ELSE "float64"],
                   [k \in DOMAIN cs |-> Rates(cs[k])]),
             t)

\* round(100 * sqrt(a / b)) for a >= 0, b > 0: the least h with
\* 40000 * a / b < (2h + 1)^2, searched between lo and hi
RECURSIVE SqrtSearch(_, _, _)
SqrtSearch(y, lo, hi) ==
    IF lo = hi THEN lo
    ELSE LET mid == (lo + hi) \div 2
         IN  IF y < (2 * mid + 1) * (2 * mid + 1)
             THEN SqrtSearch(y, lo, mid)
             ELSE SqrtSearch(y, mid + 1, hi)

\* the sample standard deviation of n values is below their range
\* (40000 * a) \div b is taken in two parts to stay within 32 bits
SqrtHundredths(a, b, range) ==
    SqrtSearch(40000 * (a \div b) + (40000 * (a % b)) \div b, 0, 100 * range)

\* DataFrame.describe() of one numeric column, rounded to 2 decimals
Describe(xs) ==
    LET n == Len(xs)
        sorted == SortValuesInts(xs)
        total == Sum(xs)
        squares == Sum([i \in DOMAIN xs |-> xs[i] * xs[i]])
        \* the quantile at k/4 interpolates linearly between the two
        \* neighbours of position (n - 1) * k / 4
        Quantile(k) ==
            LET lo == ((n - 1) * k) \div 4
                rem == ((n - 1) * k) % 4
                hi == IF rem = 0 THEN lo ELSE lo + 1
            IN  Finite((4 * sorted[lo + 1] + (sorted[hi + 1] - sorted[lo + 1]) * rem) * 25)
    IN  [count |-> Finite(n * 100),
         mean |-> IF n = 0 THEN FloatNaN ELSE Finite(RoundHundredths(total, n)),
         std |-> IF n < 2 THEN FloatNaN
                 ELSE Finite(SqrtHundredths(n * squares - total * total, n * (n - 1),
                                             sorted[n] - sorted[1])),
         min |-> IF n = 0 THEN FloatNaN ELSE Finite(sorted[1] * 100),
         q25 |-> IF n = 0 THEN FloatNaN ELSE Quantile(1),
         q50 |-> IF n = 0 THEN FloatNaN ELSE Quantile(2),
         q75 |-> IF n = 0 THEN FloatNaN ELSE Quantile(3),
         max |-> IF n = 0 THEN FloatNaN ELSE Finite(sorted[n] * 100)]

DescribeCols == <<"Statistic">> \o StatCols

DescribeIndex ==
    << <<"count", "count">>, <<"mean", "mean">>, <<"std", "std">>, <<"min", "min">>,
       <<"25%", "q25">>, <<"50%", "q50">>, <<"75%", "q75">>, <<"max", "max">> >>

describe_cases(t) ==
    LET d == [c \in Range(StatCols) |-> Describe(Column(t.rows, c))]
    IN  Call(Table(DescribeCols,
                   [c \in Range(DescribeCols) |->
                       IF c = "Statistic" THEN "object" ELSE "float64"],
                   [k \in DOMAIN DescribeIndex |->
                       [c \in Range(DescribeCols) |->
                           IF c = "Statistic" THEN DescribeIndex[k][1]
                           ELSE d[c][DescribeIndex[k][2]]]]),
             t)

generate_pivot(t) ==
    LET t2 == SetColumn(t, "year", "int64", [i \in DOMAIN t.rows |-> t.rows[i].date.y])
        years == SortInts({t2.rows[i].year : i \in DOMAIN t2.rows})
        cs == SortedCountries(t2.rows)
        \* the column label pivot_table gives a year
        cols == <<"country">> \o [k \in DOMAIN years |-> ToString(years[k])]
        Cell(c, y) ==
            LET g == SelectSeq(t2.rows, LAMBDA r : r.country = c /\ r.year = y)
            IN  IF g = <<>> THEN NaN ELSE <<Max(Range(Column(g, "confirmed_cases")))>>
    IN  Call(Table(cols,
                   [c \in Range(cols) |-> IF c = "country" THEN "object" ELSE "float64"],
                   [i \in DOMAIN cs |->
                       [c \in Range(cols) |->
                           IF c = "country" THEN cs[i]
                           ELSE Cell(cs[i],
                                     years[CHOOSE k \in DOMAIN years :
                                               ToString(years[k]) = c])]]),
             t2)

\* ------------------------------------------------------- persistence store
IsError(x) == x.kind = "error"

\* db before Connect to DB has created covid_data is
\* <<[missing |-> "covid_data"]>>
TableMissing(store) == Len(store) = 1 /\ DOMAIN store[1] = {"missing"}

\* What a library call did to the store: ret is the value returned or the
\* exception raised, db the table afterwards, opened whether
\* connect_to_database returned a connection, closed whether conn.close()
\* was reached.
StoreCall(ret, store, opened, closed) ==
    [ret |-> ret, db |-> store, opened |-> opened, closed |-> closed]

StillOpen(call) == IF call.opened /\ ~call.closed THEN 1 ELSE 0

\* connect_to_database against a server that cannot be reached raises
connect_to_database(reachable) ==
    IF reachable THEN [kind |-> "done"] ELSE Raise("InterfaceError")

\* CREATE TABLE IF NOT EXISTS covid_data
ensure_columns_exist_in_db(store) == IF TableMissing(store) THEN <<>> ELSE store

\* handle_connect_db's try block: connect, ensure, close
ConnectRequest(store, reachable) ==
    IF IsError(connect_to_database(reachable))
    THEN StoreCall(connect_to_database(reachable), store, FALSE, FALSE)
    ELSE StoreCall([kind |-> "done"], ensure_columns_exist_in_db(store), TRUE, TRUE)

\* insert_data_into_db: row['Country_Region'] raises KeyError on a frame
\* without the CSV columns, INSERT raises when covid_data does not exist;
\* commit and close come after the loop and are not reached then.
insert_data_into_db(frame, store, reachable) ==
    IF IsError(connect_to_database(reachable))
    THEN StoreCall(connect_to_database(reachable), store, FALSE, FALSE)
    ELSE IF frame.rows = <<>> THEN StoreCall([kind |-> "done"], store, TRUE, TRUE)
    ELSE IF ~Contains(frame.cols, "Country_Region")
    THEN StoreCall(Raise("KeyError"), store, TRUE, FALSE)
    ELSE IF TableMissing(store)
    THEN StoreCall(Raise("ProgrammingError"), store, TRUE, FALSE)
    ELSE LET \* the tuple passed to INSERT for one row of the table
             InsertRow(r) ==
                 [country |-> r.Country_Region, province |-> r.Province_State,
                  date |-> r.report_date, confirmed_cases |-> r.Confirmed[1],
                  deaths_cases |-> r.Deaths[1], recovered_cases |-> r.Recovered[1],
                  latitude |-> r.Lat[1], longitude |-> r.Long_[1]]
         IN  StoreCall([kind |-> "done"],
                       store \o [i \in DOMAIN frame.rows |-> InsertRow(frame.rows[i])],
                       TRUE, TRUE)

\* load_data_from_db with its connection: pd.read_sql raises when
\* covid_data does not exist, and conn.close() is not reached then.
LoadRequest(store, reachable) ==
    IF IsError(connect_to_database(reachable))
    THEN StoreCall(connect_to_database(reachable), store, FALSE, FALSE)
    ELSE IF TableMissing(store)
    THEN StoreCall(Raise("DatabaseError"), store, TRUE, FALSE)
    ELSE StoreCall(Table(DbCols, DbDtype, store), store, TRUE, TRUE)

\* truncate_covid_data_table: TRUNCATE raises when covid_data does not exist
truncate_covid_data_table(store, reachable) ==
    IF IsError(connect_to_database(reachable))
    THEN StoreCall(connect_to_database(reachable), store, FALSE, FALSE)
    ELSE IF TableMissing(store)
    THEN StoreCall(Raise("ProgrammingError"), store, TRUE, FALSE)
    ELSE StoreCall([kind |-> "done"], <<>>, TRUE, TRUE)

\* What a handler that went to the store leaves behind: whether it got a
\* connection, how often it called connect_to_database, the text its
\* status label shows at the end ("unchanged": the handler set none), and
\* whether an exception left the handler uncaught (Tk prints it to stderr).
StoreOp(name, call, status, uncaught) ==
    [name |-> name, connected |-> call.opened, attempts |-> 1,
     status |-> status, uncaught |-> uncaught]

\* ------------------------------------------------------------ GUI handlers
\* gui.py filtered_data_page.load_data and statistics_page.load_data: no
\* try/except, so an exception of load_data_from_db leaves the handler
\* before data_page.df and the status label are set.
load_data ==
    \E reachable \in BOOLEAN :
        /\ page \in {"filter", "statistics"}
        /\ conns < MaxConns
        /\ LET call == LoadRequest(db, reachable)
           IN  /\ op' = StoreOp("load_data_from_db", call,
                                IF IsTable(call.ret) THEN "loaded" ELSE "unchanged",
                                ~IsTable(call.ret))
               /\ arg' = NoDf
               /\ result' = call.ret
               /\ df' = IF IsTable(call.ret) THEN call.ret ELSE df
               /\ conns' = conns + StillOpen(call)
               /\ view' = IF IsTable(call.ret)
                          THEN [view EXCEPT !.status = "loaded"] ELSE view
        /\ UNCHANGED <<dir, db, viz_df, out, menu, page>>

\* gui.py visualization_page.load_data: the same, into visualization_page.df
viz_load_data ==
    \E reachable \in BOOLEAN :
        /\ page = "visualization"
        /\ conns < MaxConns
        /\ LET call == LoadRequest(db, reachable)
           IN  /\ op' = StoreOp("viz_load_data", call,
                                IF IsTable(call.ret) THEN "loaded" ELSE "unchanged",
                                ~IsTable(call.ret))
               /\ arg' = NoDf
               /\ result' = call.ret
               /\ viz_df' = IF IsTable(call.ret) THEN call.ret ELSE viz_df
               /\ conns' = conns + StillOpen(call)
               /\ view' = IF IsTable(call.ret)
                          THEN [view EXCEPT !.status = "loaded"] ELSE view
        /\ UNCHANGED <<dir, db, df, out, menu, page>>

\* gui.py handle_plot_selection: a warning box when visualization_page has
\* no df, another for "Select Plot"; otherwise the plot function is called
\* on visualization_page.df itself and saves its PNG under Graphics, and
\* the status label names the file. line_trend_by_country and
\* boxplot_cases_by_month assign df['month']. No plot function returns a
\* value. Plots of a table without rows are left out of the model.
handle_plot_selection(selected_plot) ==
    /\ page = "visualization"
    /\ IF viz_df = NoDf
       THEN /\ op' = [name |-> "plot_refused"]
            /\ UNCHANGED <<dir, db, df, arg, result, conns, viz_df, out, menu, page, view>>
       ELSE IF selected_plot = "Select Plot"
       THEN /\ op' = [name |-> "invalid_plot"]
            /\ UNCHANGED <<dir, db, df, arg, result, conns, viz_df, out, menu, page, view>>
       ELSE /\ viz_df.rows # <<>>
            /\ op' = [name |-> CASE selected_plot = "Correlation Heatmap" ->
                                      "correlation_heatmap"
                                 [] selected_plot = "Bar Chart: Total Cases by Country" ->
                                      "bar_total_cases"
                                 [] selected_plot = "Line Trend by Country" ->
                                      "line_trend_by_country"
                                 [] selected_plot = "Boxplot by Month" ->
                                      "boxplot_cases_by_month"
                                 [] selected_plot = "Scatter: Deaths vs Cases" ->
                                      "scatter_deaths_vs_cases",
                      selected |-> selected_plot]
            /\ arg' = viz_df
            /\ result' = NoResult
            /\ viz_df' =
                 CASE selected_plot = "Line Trend by Country" ->
                        SetColumn(viz_df, "month", "object",
                                  [i \in DOMAIN viz_df.rows |->
                                      StrftimeYm(viz_df.rows[i].date)])
                   [] selected_plot = "Boxplot by Month" ->
                        SetColumn(viz_df, "month", "int32",
                                  [i \in DOMAIN viz_df.rows |-> viz_df.rows[i].date.m])
                   [] OTHER -> viz_df
            /\ out' = [kind |-> "plot", name |-> <<op'.name, ".png">>]
            /\ view' = [view EXCEPT !.status = "plot saved"]
            /\ UNCHANGED <<dir, db, df, conns, menu, page>>

\* gui.py handle_connect_db: connect, CREATE TABLE IF NOT EXISTS, close; any
\* exception is caught and shown in the status label.
handle_connect_db ==
    \E reachable \in BOOLEAN :
        /\ page = "data"
        /\ conns < MaxConns
        /\ LET call == ConnectRequest(db, reachable)
           IN  /\ op' = StoreOp("handle_connect_db", call,
                                IF IsError(call.ret) THEN "failed" ELSE "connected", FALSE)
               /\ arg' = NoDf
               /\ result' = call.ret
               /\ db' = call.db
               /\ conns' = conns + StillOpen(call)
               /\ view' = [view EXCEPT !.status = op'.status]
        /\ UNCHANGED <<dir, df, viz_df, out, menu, page>>

\* gui.py handle_insert_data: the status label says "Inserting..." before the
\* call; there is no try/except, so on an exception of insert_data_into_db
\* the label keeps that text.
handle_insert_data ==
    /\ page = "data"
    /\ IF df = NoDf
       THEN /\ op' = [name |-> "insert_refused"]
            /\ view' = [view EXCEPT !.status = "no data"]
            /\ UNCHANGED <<dir, db, df, arg, result, conns, viz_df, out, menu, page>>
       ELSE \E reachable \in BOOLEAN :
           /\ conns < MaxConns
           /\ LET call == insert_data_into_db(df, db, reachable)
              IN  /\ IsError(call.ret) \/ Len(call.db) <= MaxStoreRows
                  /\ op' = StoreOp("insert_data_into_db", call,
                                   IF IsError(call.ret) THEN "inserting" ELSE "inserted",
                                   IsError(call.ret))
                  /\ arg' = df
                  /\ result' = call.ret
                  /\ db' = call.db
                  /\ conns' = conns + StillOpen(call)
                  /\ view' = [view EXCEPT !.status = op'.status]
           /\ UNCHANGED <<dir, df, viz_df, out, menu, page>>

\* gui.py handle_clear_table: any exception of truncate_covid_data_table is
\* caught and shown. The connection the failed call left open is
\* unreferenced once the except block ends: whether it is still open
\* afterwards is the finalizer's matter.
handle_clear_table ==
    \E reachable \in BOOLEAN, finalized \in BOOLEAN :
        /\ page = "data"
        /\ conns < MaxConns
        /\ LET call == truncate_covid_data_table(db, reachable)
           IN  /\ finalized => StillOpen(call) = 1
               /\ op' = StoreOp("truncate_covid_data_table", call,
                                IF IsError(call.ret) THEN "failed" ELSE "cleared", FALSE)
               /\ arg' = NoDf
               /\ result' = call.ret
               /\ db' = call.db
               /\ conns' = IF finalized THEN conns ELSE conns + StillOpen(call)
               /\ view' = [view EXCEPT !.status = op'.status]
        /\ UNCHANGED <<dir, df, viz_df, out, menu, page>>

\* gui.py apply_filter: filter_data works on data_page.df itself; it is
\* called outside any try, before the table and the status label are touched
apply_filter(year, month, country) ==
    /\ page = "filter"
    /\ IF df = NoDf
       THEN /\ op' = [name |-> "apply_filter_refused"]
            /\ view' = [view EXCEPT !.status = "no data"]
            /\ UNCHANGED <<dir, db, df, arg, result, conns, viz_df, out, menu, page>>
       ELSE \E call \in {filter_data(df, year, month, country)} :
                /\ op' = [name |-> "filter_data", year |-> year, month |-> month,
                          country |-> country]
                /\ arg' = df
                /\ result' = call.ret
                /\ df' = call.frame
                /\ view' = IF IsTable(result')
                           THEN [view EXCEPT !.status = "filtered", !.tree = result'.rows]
                           ELSE view
                /\ UNCHANGED <<dir, db, conns, viz_df, out, menu, page>>

StatNames ==
    {"Country Stats", "Rates", "Descriptive", "Pivot", "Month Stats", "Year Stats",
     "Wave Intensity", "Date Range"}

\* the library function handle_stat_selection calls for a selection: none
\* for "Select Stat", the entry the menu starts with
StatFunction(selected) ==
    CASE selected = "Country Stats" -> "stats_by_country"
      [] selected = "Rates" -> "calculate_rates"
      [] selected = "Descriptive" -> "describe_cases"
      [] selected = "Pivot" -> "generate_pivot"
      [] selected = "Month Stats" -> "stats_by_month"
      [] selected = "Year Stats" -> "stats_by_year"
      [] selected = "Wave Intensity" -> "compare_wave_intensity"
      [] selected = "Date Range" -> "stats_by_date_range"
      [] OTHER -> "none"

\* the if/elif chain of handle_stat_selection: no branch is taken for
\* "Select Stat" and stats stays None. On a table in the CSV shape each of
\* the eight functions raises KeyError at its first column lookup
\* ('country', 'date' or 'confirmed_cases'), before it assigns anything.
StatCall(selected, t, start, end) ==
    IF selected \notin StatNames THEN Call(NoResult, t)
    ELSE IF ~Contains(t.cols, "country") THEN Call(Raise("KeyError"), t)
    ELSE
    CASE selected = "Country Stats" -> stats_by_country(t)
      [] selected = "Rates" -> calculate_rates(t)
      [] selected = "Descriptive" -> describe_cases(t)
      [] selected = "Pivot" -> generate_pivot(t)
      [] selected = "Month Stats" -> stats_by_month(t)
      [] selected = "Year Stats" -> stats_by_year(t)
      [] selected = "Wave Intensity" -> compare_wave_intensity(t)
      [] selected = "Date Range" -> stats_by_date_range(t, start, end)

\* gui.py handle_stat_selection. The start and end entries are read for
\* "Date Range" alone, and an end that is not after the start is refused
\* with a message. An exception of the library function is caught and shown
\* in a message box, and the handler goes on to show_table(stats) with
\* stats still None, as it does when no branch was taken: show_table
\* deletes the rows of stats_tree and then raises AttributeError on
\* df.columns, which nothing catches, so the status label and button_frame
\* stay as they were. The Export and Generate Report buttons made at the
\* end are bound to this call's stats and selection.
handle_stat_selection(selected, start, end) ==
    /\ page = "statistics"
    /\ IF df = NoDf
       THEN /\ op' = [name |-> "generate_refused"]
            /\ UNCHANGED <<dir, db, df, arg, result, conns, viz_df, out, menu, page, view>>
       ELSE IF selected = "Date Range" /\ ~DateLess(start, end)
       THEN /\ op' = [name |-> "invalid_date_range"]
            /\ UNCHANGED <<dir, db, df, arg, result, conns, viz_df, out, menu, page, view>>
       ELSE \E call \in {StatCall(selected, df, start, end)} :
                /\ result' = call.ret
                /\ df' = call.frame
                /\ arg' = df
                /\ op' = [name |-> StatFunction(selected), selected |-> selected,
                          start_date |-> start, end_date |-> end,
                          messages |-> IF IsError(result') THEN 1 ELSE 0,
                          uncaught |-> ~IsTable(result')]
                /\ view' = IF IsTable(result')
                           THEN [status |-> "generated", tree |-> result'.rows,
                                 buttons |-> [stats |-> result', selected |-> selected]]
                           ELSE [view EXCEPT !.tree = <<>>]
                /\ UNCHANGED <<dir, db, conns, viz_df, out, menu, page>>

NoDate == Date(0, 0, 0)

\* ---------------------------------------------------- reports and exports
\* save_report lines 30-33: the summary block is written when the table has
\* the three counts and country and none of month_year, year, date
HasSummary_RequiredOnly(cols) ==
    {"confirmed_cases", "deaths_cases", "recovered_cases", "country"} \subseteq Range(cols)

HasSummary(cols) ==
    /\ {"confirmed_cases", "deaths_cases", "recovered_cases", "country"} \subseteq Range(cols)
    /\ \A col \in {"month_year", "year", "date"} : ~Contains(cols, col)

\* sort_values(by='confirmed_cases', ascending=False): descending, rows of
\* equal count in their order in the table
RECURSIVE SortDescending(_)
SortDescending(rows) ==
    IF rows = <<>> THEN <<>>
    ELSE LET top == CHOOSE i \in DOMAIN rows :
                        /\ \A j \in DOMAIN rows :
                              rows[j].confirmed_cases <= rows[i].confirmed_cases
                        /\ \A j \in 1..(i - 1) :
                              rows[j].confirmed_cases < rows[i].confirmed_cases
         IN  <<rows[top]>> \o
             SortDescending([k \in 1..(Len(rows) - 1) |->
                                IF k < top THEN rows[k] ELSE rows[k + 1]])

NoSummary == [kind |-> "none"]

\* the summary block of save_report: the three totals and the top 3
\* countries by confirmed cases
Summary(t) ==
    IF ~HasSummary(t.cols) THEN NoSummary
    ELSE [kind |-> "summary",
          total_confirmed |-> Sum(Column(t.rows, "confirmed_cases")),
          total_deaths |-> Sum(Column(t.rows, "deaths_cases")),
          total_recovered |-> Sum(Column(t.rows, "recovered_cases")),
          top |-> LET sorted == SortDescending(t.rows)
                      \* .head(3)
                      n == IF Len(sorted) < 3 THEN Len(sorted) ELSE 3
                  IN  [k \in 1..n |-> <<sorted[k].country, sorted[k].confirmed_cases>>]]

\* save_report: the file holds the header, the table and the summary
save_report(t, filename, title, description) ==
    [kind |-> "report", name |-> filename, title |-> title,
     description |-> description, cols |-> t.cols, rows |-> t.rows,
     summary |-> Summary(t)]

\* fname and rname of handle_stat_selection
ExportName(selected) ==
    CASE selected = "Country Stats" -> "stats_by_country"
      [] selected = "Rates" -> "fatality_recovery_rates"
      [] selected = "Descriptive" -> "descriptive_statistics"
      [] selected = "Pivot" -> "pivot_cases_by_year"
      [] selected = "Month Stats" -> "stats_by_month"
      [] selected = "Year Stats" -> "stats_by_year"
      [] selected = "Wave Intensity" -> "wave_intensity_comparison"
      [] selected = "Date Range" -> "stats_by_date_range"

\* how the float columns of a statistic hold their values here: rounded to
\* hundredths (round(2)), exact ratios (means), or a count that may be
\* missing (pivot cells)
FloatShape(selected) ==
    CASE selected \in {"Wave Intensity", "Descriptive"} -> "rounded"
      [] selected = "Rates" -> "ratio"
      [] OTHER -> "count"

\* One field of the CSV text. to_csv writes a string as it is, an integer
\* in digits, a float in the shortest digits that read back as the same
\* float ("50.0", "inf", "-inf") and NaN as the empty field.
FormatField(dtype, shape, v) ==
    IF dtype = "float64"
    THEN CASE shape = "rounded" ->
                (CASE v.f = "finite" -> [kind |-> "float", v |-> v]
                   [] v.f = "inf" -> [kind |-> "inf", negative |-> FALSE]
                   [] v.f = "-inf" -> [kind |-> "inf", negative |-> TRUE]
                   [] v.f = "nan" -> [kind |-> "empty"])
           [] shape = "ratio" -> [kind |-> "float", v |-> v]
           [] shape = "count" ->
                IF v = NaN THEN [kind |-> "empty"] ELSE [kind |-> "float", v |-> v]
    ELSE IF dtype = "int64" THEN [kind |-> "int", n |-> v]
    ELSE [kind |-> "text", s |-> v]

\* df.to_csv(file_path, index=False): the header line and one line a row
to_csv(t, shape) ==
    [header |-> t.cols,
     lines |-> [i \in DOMAIN t.rows |->
                   [k \in DOMAIN t.cols |->
                       FormatField(t.dtype[t.cols[k]], shape, t.rows[i][t.cols[k]])]]]

export_to_csv(t, filename, shape) ==
    [kind |-> "csv", name |-> filename] @@ to_csv(t, shape)

\* pd.read_csv of such a file: a column whose fields are all integers is
\* int64; one of numbers, inf and empty fields is float64, an empty field
\* NaN; any other column is object.
ParsedDtype_InfAsText(kinds) ==
    IF kinds = {} THEN "object"
    ELSE IF kinds \subseteq {"int"} THEN "int64"
    ELSE IF kinds \subseteq {"int", "float", "empty"} THEN "float64"
    ELSE "object"

ParsedDtype(kinds) ==
    IF kinds = {} THEN "object"
    ELSE IF kinds \subseteq {"int"} THEN "int64"
    ELSE IF kinds \subseteq {"int", "float", "inf", "empty"} THEN "float64"
    ELSE "object"

ParseField(dtype, field) ==
    IF dtype = "int64" THEN field.n
    ELSE IF dtype = "float64"
    THEN CASE field.kind = "int" -> [f |-> "number", int |-> TRUE, v |-> field.n]
           [] field.kind = "float" -> [f |-> "number", int |-> FALSE, v |-> field.v]
           [] field.kind = "inf" -> [f |-> IF field.negative THEN "-inf" ELSE "inf"]
           [] field.kind = "empty" -> [f |-> "nan"]
    ELSE CASE field.kind = "text" -> [f |-> "text", s |-> field.s]
           [] field.kind = "empty" -> [f |-> "nan"]
           [] field.kind = "inf" ->
                [f |-> "text", s |-> IF field.negative THEN "-inf" ELSE "inf"]
           [] OTHER -> [f |-> "text", s |-> field]

read_csv(file) ==
    LET dtype == [k \in DOMAIN file.header |->
                     ParsedDtype({file.lines[i][k].kind : i \in DOMAIN file.lines})]
    IN  Table(file.header,
              [c \in Range(file.header) |-> dtype[IndexOf(file.header, c)]],
              [i \in DOMAIN file.lines |->
                  [c \in Range(file.header) |->
                      ParseField(dtype[IndexOf(file.header, c)],
                                 file.lines[i][IndexOf(file.header, c)])]])

\* gui.py generate_report, the command of the Generate Report button: it
\* exists once a Generate has shown a table, and saves the stats of that
\* Generate under its names
generate_report ==
    /\ page = "statistics"
    /\ view.buttons # NoResult
    /\ op' = [name |-> "save_report", selected |-> view.buttons.selected]
    /\ arg' = view.buttons.stats
    /\ out' = save_report(view.buttons.stats, ExportName(view.buttons.selected),
                          view.buttons.selected, view.buttons.selected)
    /\ view' = [view EXCEPT !.status = "saved"]
    /\ UNCHANGED <<dir, db, df, result, conns, viz_df, menu, page>>

\* gui.py export_stat, the command of the Export button
export_stat ==
    /\ page = "statistics"
    /\ view.buttons # NoResult
    /\ op' = [name |-> "export_to_csv", selected |-> view.buttons.selected]
    /\ arg' = view.buttons.stats
    /\ out' = export_to_csv(view.buttons.stats, ExportName(view.buttons.selected),
                            FloatShape(view.buttons.selected))
    /\ view' = [view EXCEPT !.status = "exported"]
    /\ UNCHANGED <<dir, db, df, result, conns, viz_df, menu, page>>

\* ------------------------------------------------------------ the sidebar
\* gui.py expand_menu: one step of the animation. It reads the width the
\* frame has on screen, configures one 10 wider unless that is 250, and
\* schedules itself again.
expand_menu_Past(m) ==
    IF m.width # 260
    THEN [m EXCEPT !.req = m.width + 10,
                   !.timers = Append(@, [func |-> "expand_menu", due |-> ExpandMs])]
    ELSE m

expand_menu(m) ==
    IF m.width # 250
    THEN [m EXCEPT !.req = m.width + 10,
                   !.timers = Append(@, [func |-> "expand_menu", due |-> ExpandMs])]
    ELSE m

\* gui.py expand_menu_sidebar: the first step, then the toggle button gets
\* the close icon and shrink_menu_sidebar as its command
expand_menu_sidebar(m) == [expand_menu(m) EXCEPT !.command = "shrink_menu_sidebar"]

\* gui.py shrink_menu
shrink_menu(m) ==
    IF m.width # 50
    THEN [m EXCEPT !.req = m.width - 10,
                   !.timers = Append(@, [func |-> "shrink_menu", due |-> ShrinkMs])]
    ELSE m

\* gui.py shrink_menu_sidebar: the toggle button gets the open icon and
\* expand_menu_sidebar as its command
shrink_menu_sidebar(m) == [shrink_menu(m) EXCEPT !.command = "expand_menu_sidebar"]

\* a click on toggle_button runs the command the button has
toggle_button ==
    /\ Len(menu.timers) < MaxTimers
    /\ menu' = IF menu.command = "expand_menu_sidebar"
               THEN expand_menu_sidebar(menu) ELSE shrink_menu_sidebar(menu)
    /\ UNCHANGED <<dir, db, df, op, arg, result, conns, viz_df, out, page, view>>

\* gui.py switcher, the command of the five page buttons: a sidebar wider
\* than 50 is sent shrinking, the frames in page_frame are destroyed and
\* the page function builds its widgets anew. data_page.df and
\* visualization_page.df are attributes of the page functions and stay.
switcher(p) ==
    /\ menu.width > 50 => Len(menu.timers) < MaxTimers
    /\ menu' = IF menu.width > 50 THEN shrink_menu_sidebar(menu) ELSE menu
    /\ page' = p
    /\ view' = FreshPage
    /\ op' = [name |-> "switcher", page |-> p]
    /\ arg' = NoDf
    /\ result' = NoResult
    /\ UNCHANGED <<dir, db, df, conns, viz_df, out>>

\* mainloop runs the i-th callback that root.after has pending
after(i) ==
    /\ LET m == [menu EXCEPT !.timers = SubSeq(@, 1, i - 1) \o SubSeq(@, i + 1, Len(@))]
       IN  menu' = IF menu.timers[i].func = "expand_menu"
                   THEN expand_menu(m) ELSE shrink_menu(m)
    /\ UNCHANGED <<dir, db, df, op, arg, result, conns, viz_df, out, page, view>>

\* mainloop, idle: the packer gives the sidebar the width configured last
\* (pack_propagate is off), and winfo_width() returns it from then on
pack ==
    /\ menu.width # menu.req
    /\ menu' = [menu EXCEPT !.width = menu.req]
    /\ UNCHANGED <<dir, db, df, op, arg, result, conns, viz_df, out, page, view>>

\* d milliseconds pass in mainloop, no pending callback being due earlier
Wait(d) ==
    /\ \A i \in DOMAIN menu.timers : menu.timers[i].due >= d
    /\ menu' = [menu EXCEPT !.timers =
                   [i \in DOMAIN @ |-> [@[i] EXCEPT !.due = @ - d]]]
    /\ UNCHANGED <<dir, db, df, op, arg, result, conns, viz_df, out, page, view>>

\* ------------------------------------------------------- persisted tables
\* covid_data as Insert into DB leaves it after Clean Data: ascending by
\* country and date.
DbRow(c, d, v) ==
    [country |-> c, province |-> IF v % 100 = 0 THEN "Unknown" ELSE "Goa",
     date |-> d, confirmed_cases |-> v, deaths_cases |-> v \div 20,
     recovered_cases |-> v \div 2,
     latitude |-> IF c = "India" THEN 20 ELSE -14,
     longitude |-> IF c = "India" THEN 78 ELSE -51]

DbRowLeq(a, b) ==
    \/ StrLess(a.country, b.country)
    \/ a.country = b.country /\ Ordinal(a.date) < Ordinal(b.date)
    \/ a.country = b.country /\ a.date = b.date
                              /\ a.confirmed_cases <= b.confirmed_cases

RECURSIVE SortedTables(_, _)
SortedTables(pool, n) ==
    IF n = 0 THEN {<<>>}
    ELSE LET shorter == SortedTables(pool, n - 1)
         IN  shorter \cup
             {Append(s, r) : s \in {x \in shorter : Len(x) = n - 1},
                             r \in pool}

CleanTables(pool, n) ==
    {s \in SortedTables(pool, n) :
        \A i \in 1..(Len(s) - 1) : DbRowLeq(s[i], s[i + 1])}

DbCountries == {"India", "Brazil"}
DbDates == {Date(2021, 3, 5), Date(2022, 7, 1), Date(2023, 1, 10)}

\* the session's rows: one cumulative count per country and date, so that
\* two rows of one country and date are two of its provinces
StatsPool ==
    {DbRow(c, d, IF c = "India" THEN 20 * (d.y - 2016) ELSE 180 - 30 * (d.y - 2021)) :
        c \in DbCountries, d \in DbDates}

\* the wave tables: yearly counts of India, among them 0 and the totals
\* 100, 150, 120, beside one count of Brazil a year
WavePool ==
    {DbRow("India", d, v) : d \in DbDates, v \in {0, 100, 120, 150}}
    \cup {DbRow("Brazil", d, 120) : d \in DbDates}

\* ------------------------------------------------- the statistics session
InitStats ==
    /\ dir = <<>>
    /\ db \in CleanTables(StatsPool, MaxDbRows)
    /\ df = NoDf
    /\ op = [name |-> "start"]
    /\ arg = NoDf
    /\ result = NoResult
    /\ conns = 0
    /\ viz_df = NoDf
    /\ out = NoFile
    /\ menu = MenuClosed
    /\ page = "data"
    /\ view = FreshPage

NextStats ==
    \/ \E p \in {"filter", "statistics"} : switcher(p)
    \/ load_data
    \/ \E year \in {"", "2021"}, country \in {"", "India"} :
         apply_filter(year, IF year = "" THEN "" ELSE "3", country)
    \/ \E selected \in StatNames \ {"Date Range"} :
         handle_stat_selection(selected, NoDate, NoDate)
    \/ \E start, end \in DbDates : handle_stat_selection("Date Range", start, end)

SpecStats == InitStats /\ [][NextStats]_vars

\* --------------------------------------- wave intensity on its own
InitWave ==
    /\ dir = <<>>
    /\ db \in CleanTables(WavePool, MaxWaveRows)
    /\ df = NoDf
    /\ op = [name |-> "start"]
    /\ arg = NoDf
    /\ result = NoResult
    /\ conns = 0
    /\ viz_df = NoDf
    /\ out = NoFile
    /\ menu = MenuClosed
    /\ page = "data"
    /\ view = FreshPage

NextWave ==
    \/ \E p \in {"filter", "statistics"} : switcher(p)
    \/ load_data
    \/ apply_filter("", "", "")
    \/ handle_stat_selection("Wave Intensity", NoDate, NoDate)

SpecWave == InitWave /\ [][NextWave]_vars

\* ------------------------------------------------- the filter page on its own
InitFilter ==
    /\ dir = <<>>
    /\ db \in CleanTables(StatsPool, MaxDbRows)
    /\ df = NoDf
    /\ op = [name |-> "start"]
    /\ arg = NoDf
    /\ result = NoResult
    /\ conns = 0
    /\ viz_df = NoDf
    /\ out = NoFile
    /\ menu = MenuClosed
    /\ page = "data"
    /\ view = FreshPage

NextFilter ==
    \/ switcher("filter")
    \/ load_data
    \/ \E year \in {"", "2021", "2022"}, month \in {"", "3", "7"},
          country \in {"", "India", "Brazil"} :
         apply_filter(year, month, country)

SpecFilter == InitFilter /\ [][NextFilter]_vars

\* ------------------------------------------------------- rates on their own
\* rows with the counts given: among them a zero-confirmed row and the row
\* confirmed 50, deaths 5
RateRow(c, d, counts) ==
    [DbRow(c, d, counts[1]) EXCEPT !.deaths_cases = counts[2],
                                   !.recovered_cases = counts[3]]

RatesPool ==
    {RateRow("India", d, k) : d \in DbDates, k \in {<<0, 0, 0>>, <<50, 5, 20>>, <<10, 2, 3>>}}
    \cup {RateRow("Brazil", Date(2021, 3, 5), <<50, 5, 20>>)}

InitRates ==
    /\ dir = <<>>
    /\ db \in CleanTables(RatesPool, MaxDbRows)
    /\ df = NoDf
    /\ op = [name |-> "start"]
    /\ arg = NoDf
    /\ result = NoResult
    /\ conns = 0
    /\ viz_df = NoDf
    /\ out = NoFile
    /\ menu = MenuClosed
    /\ page = "data"
    /\ view = FreshPage

NextRates ==
    \/ switcher("statistics")
    \/ load_data
    \/ handle_stat_selection("Rates", NoDate, NoDate)

SpecRates == InitRates /\ [][NextRates]_vars

\* ------------------------------------- the grouped statistics on their own
\* days of one month, months of one year and two years; counts whose
\* maxima lie in different rows
GroupPool ==
    {RateRow("India", d, k) :
        d \in {Date(2021, 3, 5), Date(2021, 3, 20), Date(2021, 4, 2), Date(2022, 7, 1)},
        k \in {<<100, 9, 10>>, <<120, 3, 70>>}}
    \cup {RateRow("Brazil", d, <<50, 5, 20>>) : d \in {Date(2021, 3, 5), Date(2022, 7, 1)}}

InitGroups ==
    /\ dir = <<>>
    /\ db \in CleanTables(GroupPool, MaxWaveRows)
    /\ df = NoDf
    /\ op = [name |-> "start"]
    /\ arg = NoDf
    /\ result = NoResult
    /\ conns = 0
    /\ viz_df = NoDf
    /\ out = NoFile
    /\ menu = MenuClosed
    /\ page = "data"
    /\ view = FreshPage

NextGroups ==
    \/ switcher("statistics")
    \/ load_data
    \/ \E selected \in {"Country Stats", "Month Stats", "Year Stats"} :
         handle_stat_selection(selected, NoDate, NoDate)

SpecGroups == InitGroups /\ [][NextGroups]_vars

\* --------------------------------------------------- the store on its own
InitStore ==
    /\ dir = <<>>
    /\ db \in {<<[missing |-> "covid_data"]>>, <<>>}
    \* data_page.df: not set, or a cleaned table of the Loading page
    /\ df \in {NoDf} \cup
             {clean_data(Table(CsvCols, CsvDtype(rows), rows)) :
                 rows \in SeqsUpTo({r \in RawRowPool : r.report_date.y = 2021
                                                        /\ r.Country_Region = "India"}, 2)}
    /\ op = [name |-> "start"]
    /\ arg = NoDf
    /\ result = NoResult
    /\ conns = 0
    /\ viz_df = NoDf
    /\ out = NoFile
    /\ menu = MenuClosed
    /\ page = "data"
    /\ view = FreshPage

NextStore ==
    \/ \E p \in {"data", "filter", "visualization"} : switcher(p)
    \/ handle_connect_db
    \/ handle_insert_data
    \/ handle_clear_table
    \/ load_data
    \/ viz_load_data

SpecStore == InitStore /\ [][NextStore]_vars

\* -------------------------------------------- reports and exports session
\* tables of distinct rows of the session after 2021 and a zero count for
\* India in 2021, which gives an infinite wave percentage; the user has
\* switched to the statistics page
InitReport ==
    /\ dir = <<>>
    /\ db \in {t \in CleanTables({r \in StatsPool : r.date.y > 2021}
                                  \cup {DbRow("India", Date(2021, 3, 5), 0)},
                                MaxDbRows) :
                 \A i, j \in DOMAIN t : i # j => t[i] # t[j]}
    /\ df = NoDf
    /\ op = [name |-> "switcher", page |-> "statistics"]
    /\ arg = NoDf
    /\ result = NoResult
    /\ conns = 0
    /\ viz_df = NoDf
    /\ out = NoFile
    /\ menu = MenuClosed
    /\ page = "statistics"
    /\ view = FreshPage

NextReport ==
    \/ load_data
    \/ \E selected \in StatNames \ {"Date Range"} :
         handle_stat_selection(selected, NoDate, NoDate)
    \/ handle_stat_selection("Date Range", Date(2021, 3, 5), Date(2022, 7, 1))
    \/ generate_report
    \/ export_stat

SpecReport == InitReport /\ [][NextReport]_vars

\* ----------------------------------------- the sidebar, callbacks in any order
InitSidebar ==
    /\ dir = <<>>
    /\ db = <<>>
    /\ df = NoDf
    /\ op = [name |-> "start"]
    /\ arg = NoDf
    /\ result = NoResult
    /\ conns = 0
    /\ viz_df = NoDf
    /\ out = NoFile
    /\ menu = MenuClosed
    /\ page = "data"
    /\ view = FreshPage

NextSidebar ==
    \/ toggle_button
    \/ \E p \in {"data", "filter", "statistics", "visualization", "configuration"} :
         switcher(p)
    \/ \E i \in DOMAIN menu.timers : after(i)
    \/ pack

SpecSidebar == InitSidebar /\ [][NextSidebar]_vars

\* --------------------------------------- the sidebar, callbacks when due
\* mainloop as Tk runs it: a callback runs when its delay has passed, the
\* one due first before the others; the packer runs when no callback is
\* due; time passes and the user clicks when the packer has run.
NextAnimation ==
    \/ menu.width = menu.req /\ toggle_button
    \/ menu.width = menu.req /\ switcher("filter")
    \/ \E i \in DOMAIN menu.timers :
         /\ menu.timers[i].due = 0
         /\ \A j \in 1..(i - 1) : menu.timers[j].due # 0
         /\ after(i)
    \/ (\A i \in DOMAIN menu.timers : menu.timers[i].due # 0) /\ pack
    \/ \E d \in 1..ShrinkMs :
         menu.width = menu.req /\ menu.timers # <<>> /\ Wait(d)

SpecAnimation ==
    /\ InitSidebar
    /\ [][NextAnimation]_vars
    /\ WF_vars(\E i \in DOMAIN menu.timers : menu.timers[i].due = 0 /\ after(i))
    /\ WF_vars(pack)
    /\ WF_vars(\E d \in 1..ShrinkMs : menu.width = menu.req /\ Wait(d))

\* ------------------------------------------------- a session over the pages
\* The program from its start: the snapshot directory holds one file with
\* one row, covid_data exists and is empty, and the user goes through the
\* pages pressing their buttons.
InitPages ==
    /\ dir = << [(CHOOSE f \in FilePool : f.id = "01-15-2021.csv")
                    EXCEPT !.rows = SubSeq(@, 1, 1)] >>
    /\ db = <<>>
    /\ df = NoDf
    /\ op = [name |-> "start"]
    /\ arg = NoDf
    /\ result = NoResult
    /\ conns = 0
    /\ viz_df = NoDf
    /\ out = NoFile
    /\ menu = MenuClosed
    /\ page = "data"
    /\ view = FreshPage

NextPages ==
    \/ \E p \in {"data", "filter", "statistics", "visualization"} : switcher(p)
    \/ handle_load_data
    \/ handle_clean_data
    \/ handle_insert_data
    \/ handle_clear_table
    \/ load_data
    \/ apply_filter("", "", "")
    \/ \E selected \in {"Select Stat", "Country Stats", "Month Stats", "Date Range"} :
         handle_stat_selection(selected, Date(2021, 1, 15), Date(2022, 7, 1))
    \/ viz_load_data
    \/ \E selected_plot \in {"Select Plot", "Line Trend by Country",
                             "Scatter: Deaths vs Cases"} :
         handle_plot_selection(selected_plot)

SpecPages == InitPages /\ [][NextPages]_vars

\* ------------------------------ a session with one Load Data button used
\* The user has gone to the statistics page; of the four Load Data buttons
\* only the one of the statistics page is ever pressed, the buttons of the
\* other pages are pressed without a load on their page.
NextStatisticsLoad ==
    \/ \E p \in {"data", "filter", "statistics", "visualization"} : switcher(p)
    \/ page = "statistics" /\ load_data
    \/ handle_stat_selection("Country Stats", NoDate, NoDate)
    \/ handle_clean_data
    \/ handle_insert_data
    \/ apply_filter("", "", "")
    \/ \E selected_plot \in {"Select Plot", "Scatter: Deaths vs Cases"} :
         handle_plot_selection(selected_plot)

SpecStatisticsLoad == InitReport /\ [][NextStatisticsLoad]_vars

C6_Confirmed(c, y) ==
    {arg.rows[i].confirmed_cases :
        i \in {j \in DOMAIN arg.rows : arg.rows[j].country = c /\ arg.rows[j].date.y = y}}

C6_IsMaxOf(v, S) == v \in S /\ \A x \in S : x <= v

\* p, in hundredths, is a nearest value to (b - a) / a * 100
C6_Nearest(p, a, b) ==
    /\ p.f = "finite"
    /\ 2 * Abs(p.h * a - (b - a) * 10000) <= Abs(a)

\* C6: compare_wave_intensity takes, per country, the maximum confirmed
\* count of each calendar year as the year's total and reports the changes
\* (2022-2021)/2021, (2023-2022)/2022 and (2023-2021)/2021 in percent, each
\* rounded to 2 decimals; totals 100, 150, 120 give 50.00, -20.00, 20.00.
C6_WaveTotalsAndChanges ==
    (op.name = "compare_wave_intensity" /\ IsTable(result)) =>
        \A i \in DOMAIN result.rows :
            LET r == result.rows[i]
            IN  /\ \A y \in {2021, 2022, 2023} :
                     C6_Confirmed(r.country, y) # {} =>
                        C6_IsMaxOf(r[ToString(y)], C6_Confirmed(r.country, y))
                /\ r["2021"] # 0 => C6_Nearest(r["2021->2022 (%)"], r["2021"], r["2022"])
                /\ r["2022"] # 0 => C6_Nearest(r["2022->2023 (%)"], r["2022"], r["2023"])
                /\ r["2021"] # 0 => C6_Nearest(r["2021->2023 (%)"], r["2021"], r["2023"])
                /\ (r["2021"] = 100 /\ r["2022"] = 150 /\ r["2023"] = 120) =>
                     /\ r["2021->2022 (%)"] = [f |-> "finite", h |-> 5000]
                     /\ r["2022->2023 (%)"] = [f |-> "finite", h |-> -2000]
                     /\ r["2021->2023 (%)"] = [f |-> "finite", h |-> 2000]

\* The totals 100, 150, 120 of the example, the 2021 total being the larger
\* of two counts of that year.
C6_Witness ==
    /\ op.name = "compare_wave_intensity"
    /\ IsTable(result)
    /\ \E i \in DOMAIN result.rows :
         /\ result.rows[i]["2021"] = 100
         /\ result.rows[i]["2022"] = 150
         /\ result.rows[i]["2023"] = 120
         /\ Cardinality(C6_Confirmed(result.rows[i].country, 2021)) = 2

\* C7: on a table with at least one row, whichever of the years 2021 to
\* 2023 occur in it, compare_wave_intensity returns one row per country with
\* a total for each of the three years, 0 for a year without data, each
\* total under the column of its own year.
C7_WaveAllYears ==
    (op.name = "compare_wave_intensity" /\ arg.rows # <<>>) =>
        /\ IsTable(result)
        /\ \A c \in {arg.rows[i].country : i \in DOMAIN arg.rows} :
             Cardinality({i \in DOMAIN result.rows : result.rows[i].country = c}) = 1
        /\ \A i \in DOMAIN result.rows :
             \A y \in {2021, 2022, 2023} :
                LET vals == C6_Confirmed(result.rows[i].country, y)
                IN  IF vals = {} THEN result.rows[i][ToString(y)] = 0
                    ELSE C6_IsMaxOf(result.rows[i][ToString(y)], vals)

C8_Changes ==
    { <<"2021", "2022", "2021->2022 (%)">>, <<"2022", "2023", "2022->2023 (%)">>,
      <<"2021", "2023", "2021->2023 (%)">> }

\* C8: a year total of 0 in the denominator raises nothing and is not
\* special-cased: that percentage is inf, -inf or NaN, and every other
\* percentage and total of the table is computed as usual.
C8_ZeroDenominator ==
    op.name = "compare_wave_intensity" =>
        /\ {arg.rows[i].date.y : i \in DOMAIN arg.rows} = {2021, 2022, 2023}
              => IsTable(result)
        /\ IsTable(result) =>
             \A i \in DOMAIN result.rows : \A ch \in C8_Changes :
                LET a == result.rows[i][ch[1]]
                    b == result.rows[i][ch[2]]
                    p == result.rows[i][ch[3]]
                IN  IF a = 0
                    THEN /\ p.f \in {"inf", "-inf", "nan"}
                         /\ b > 0 => p.f = "inf"
                         /\ b = 0 => p.f = "nan"
                    ELSE C6_Nearest(p, a, b)

\* A result row with a zero 2021 total under a positive 2022 total: one
\* infinite percentage beside a finite one.
C8_Witness ==
    /\ op.name = "compare_wave_intensity"
    /\ IsTable(result)
    /\ \E i \in DOMAIN result.rows :
         /\ result.rows[i]["2021"] = 0
         /\ result.rows[i]["2022"] > 0
         /\ result.rows[i]["2021->2022 (%)"].f = "inf"
         /\ result.rows[i]["2022->2023 (%)"].f = "finite"
         /\ \E j \in DOMAIN arg.rows :
              arg.rows[j].country = result.rows[i].country /\ arg.rows[j].confirmed_cases = 0

C2_Aggregations ==
    {"stats_by_country", "stats_by_month", "stats_by_year", "stats_by_date_range",
     "compare_wave_intensity", "calculate_rates", "describe_cases", "generate_pivot"}

\* C2: every aggregation operation is a pure function of its input table:
\* after the call the table has the columns and values it had before, and
\* the same call on it returns the same result again.
C2_AggregationsPure ==
    op.name \in C2_Aggregations =>
        /\ df.cols = arg.cols
        /\ df.rows = arg.rows
        /\ StatCall(op.selected, df, op.start_date, op.end_date).ret = result

\* C3: applying the filter does not change the loaded table: the date-range
\* statistic is the one computed on the table as it was loaded, whether or
\* not filter_data ran on it before.
C3_FilterLeavesTable ==
    op.name = "stats_by_date_range" =>
        result = stats_by_date_range(load_data_from_db,
                                     op.start_date, op.end_date).ret

C9_RowsOn(c, d) ==
    SelectSeq(arg.rows, LAMBDA r : r.country = c /\ r.date = d)

\* C9: a country with rows on the start date and on the end date gets
\* exactly one row, holding for each count the sum over its rows of the end
\* date minus the sum over its rows of the start date.
C9_DateRangeDelta ==
    op.name = "stats_by_date_range" =>
        \A c \in {arg.rows[i].country : i \in DOMAIN arg.rows} :
            LET first == C9_RowsOn(c, op.start_date)
                last == C9_RowsOn(c, op.end_date)
                rowsOut == {i \in DOMAIN result.rows : result.rows[i].country = c}
            IN  (first # <<>> /\ last # <<>>) =>
                  /\ IsTable(result)
                  /\ Cardinality(rowsOut) = 1
                  /\ \A i \in rowsOut : \A col \in Range(StatCols) :
                       result.rows[i][col] =
                           Sum(Column(last, col)) - Sum(Column(first, col))

\* C10: stats_by_date_range raises nothing, and a country is in its output
\* if and only if it has a row on the start date and a row on the end date.
C10_InnerJoin ==
    op.name = "stats_by_date_range" =>
        /\ IsTable(result)
        /\ \A c \in DbCountries :
             (\E i \in DOMAIN result.rows : result.rows[i].country = c)
             <=> (C9_RowsOn(c, op.start_date) # <<>> /\ C9_RowsOn(c, op.end_date) # <<>>)

C11_Keys(rows) == {<<rows[i].country, rows[i].date>> : i \in DOMAIN rows}

\* C11: filter_data with year, month and country all unset returns one row
\* per distinct (country, date) of the input, and the confirmed, deaths and
\* recovered counts summed over the output equal those summed over the input.
C11_UnfilteredTotals ==
    (op.name = "filter_data" /\ op.year = "" /\ op.month = "" /\ op.country = "") =>
        /\ IsTable(result)
        /\ Len(result.rows) = Cardinality(C11_Keys(arg.rows))
        /\ C11_Keys(result.rows) = C11_Keys(arg.rows)
        /\ \A col \in Range(StatCols) :
             Sum(Column(result.rows, col)) = Sum(Column(arg.rows, col))

\* An unfiltered call on a table where two rows share a country and date
\* beside a row of another key: fewer output rows than input rows.
C11_Witness ==
    /\ op.name = "filter_data" /\ op.year = "" /\ op.month = "" /\ op.country = ""
    /\ IsTable(result)
    /\ Len(arg.rows) = 3
    /\ Len(result.rows) = 2
    /\ Sum(Column(result.rows, "confirmed_cases")) > 0

C12_Matches(r) ==
    /\ (op.year # "" => ToString(r.date.y) = op.year)
    /\ (op.month # "" => ToString(r.date.m) = op.month)
    /\ (op.country # "" => r.country = op.country)

\* C12: the output of filter_data has a row for a (country, date) pair if
\* and only if the input has a row of that pair matching every set filter
\* (year, month, country), an empty filter restricting nothing; the output
\* has no province column.
C12_FilterPredicates ==
    op.name = "filter_data" =>
        /\ IsTable(result)
        /\ C11_Keys(result.rows)
             = C11_Keys(SelectSeq(arg.rows, LAMBDA r : C12_Matches(r)))
        /\ ~Contains(result.cols, "province")
        /\ \A i \in DOMAIN result.rows : "province" \notin DOMAIN result.rows[i]

\* A call with the month alone set, on a table with a province column,
\* that keeps one row and drops another.
C12_Witness ==
    /\ op.name = "filter_data" /\ op.year = "" /\ op.month = "7" /\ op.country = ""
    /\ IsTable(result)
    /\ Contains(arg.cols, "province")
    /\ result.rows # <<>>
    /\ Len(result.rows) < Cardinality(C11_Keys(arg.rows))

\* a listed file whose name is <MM-DD-YYYY>.csv with a date of 2021 to 2023
C15_DataFile(f) ==
    /\ f.ext = ".csv"
    /\ f.stem.shape = "n-n-n"
    /\ f.stem.a \in 1..12
    /\ f.stem.b \in 1..DaysInMonth(f.stem.c, f.stem.a)
    /\ f.stem.c \in {2021, 2022, 2023}

C15_AllowedRows(f) ==
    {j \in DOMAIN f.rows : f.rows[j][2] \in TARGET_COUNTRIES}

\* C15: a file whose name carries no valid MM-DD-YYYY date is skipped
\* silently: when the directory holds a data file of 2021 to 2023,
\* load_all_csvs raises nothing and returns the allowlisted rows of every
\* such file, whatever other file names are listed.
C15_SkipsNonDateFiles ==
    (op.name = "load_all_csvs" /\ \E k \in DOMAIN dir : C15_DataFile(dir[k])) =>
        /\ IsTable(result)
        /\ \A k \in DOMAIN dir : C15_DataFile(dir[k]) =>
              \A j \in C15_AllowedRows(dir[k]) :
                 \E i \in DOMAIN result.rows :
                    /\ result.rows[i].Country_Region = dir[k].rows[j][2]
                    /\ result.rows[i].report_date =
                           Date(dir[k].stem.c, dir[k].stem.a, dir[k].stem.b)

\* C16: when no listed file passes the file name pattern and the year
\* window, load_all_csvs returns an empty table and raises nothing.
C16_EmptyLoad ==
    (op.name = "load_all_csvs" /\ \A k \in DOMAIN dir : ~C15_DataFile(dir[k])) =>
        /\ IsTable(result)
        /\ result.rows = <<>>

\* the rows of country c that enter the mean
C13_Positive(c) ==
    SelectSeq(arg.rows, LAMBDA r : r.country = c /\ r.confirmed_cases > 0)

RECURSIVE C13_Product(_)
C13_Product(g) ==
    IF g = <<>> THEN 1 ELSE Head(g).confirmed_cases * C13_Product(Tail(g))

\* the sum of col / confirmed * 100 over g, times the product of the
\* confirmed counts of g
RECURSIVE C13_ScaledSum(_, _, _)
C13_ScaledSum(g, col, all) ==
    IF g = <<>> THEN 0
    ELSE Head(g)[col] * 100 * (C13_Product(all) \div Head(g).confirmed_cases)
         + C13_ScaledSum(Tail(g), col, all)

\* the rational v is the mean over g of col / confirmed * 100
C13_IsMean(v, g, col) ==
    /\ v[2] > 0
    /\ v[1] * Len(g) * C13_Product(g) = C13_ScaledSum(g, col, g) * v[2]

\* C13: calculate_rates gives, per country, the mean over the country's
\* rows with confirmed_cases > 0 of deaths/confirmed*100 and of
\* recovered/confirmed*100; rows with confirmed_cases = 0 do not enter it
\* (a zero-confirmed row beside confirmed 50, deaths 5 gives 10).
C13_MeanOfRowRates ==
    op.name = "calculate_rates" =>
        /\ IsTable(result)
        /\ \A c \in {arg.rows[i].country : i \in DOMAIN arg.rows} :
             C13_Positive(c) # <<>> =>
                /\ Cardinality({i \in DOMAIN result.rows : result.rows[i].country = c}) = 1
                /\ \A i \in DOMAIN result.rows : result.rows[i].country = c =>
                     /\ C13_IsMean(result.rows[i]["fatality_rate (%)"],
                                   C13_Positive(c), "deaths_cases")
                     /\ C13_IsMean(result.rows[i]["recovery_rate (%)"],
                                   C13_Positive(c), "recovered_cases")

\* India with a zero-confirmed row and one row of confirmed 50, deaths 5:
\* fatality rate 10.
C13_Witness ==
    /\ op.name = "calculate_rates"
    /\ IsTable(result)
    /\ \E i, j \in DOMAIN arg.rows :
         /\ arg.rows[i].country = "India" /\ arg.rows[i].confirmed_cases = 0
         /\ arg.rows[j].country = "India" /\ arg.rows[j].confirmed_cases = 50
         /\ arg.rows[j].deaths_cases = 5
    /\ Len(C13_Positive("India")) = 1
    /\ \E i \in DOMAIN result.rows :
         /\ result.rows[i].country = "India"
         /\ result.rows[i]["fatality_rate (%)"] = <<10, 1>>

\* the group key of an input row and of a result row
C14_KeyOfInput(r) ==
    CASE op.name = "stats_by_country" -> <<r.country>>
      [] op.name = "stats_by_month" -> <<r.country, r.date.y, r.date.m>>
      [] op.name = "stats_by_year" -> <<r.country, r.date.y>>

C14_KeyOfResult(r) ==
    CASE op.name = "stats_by_country" -> <<r.country>>
      [] op.name = "stats_by_month" -> <<r.country, r.month_year[1], r.month_year[2]>>
      [] op.name = "stats_by_year" -> <<r.country, r.year>>

C14_GroupValues(key, col) ==
    {arg.rows[i][col] : i \in {j \in DOMAIN arg.rows : C14_KeyOfInput(arg.rows[j]) = key}}

\* C14: stats_by_country, stats_by_month and stats_by_year return exactly
\* one row per distinct group key of the input (country; country and
\* year-month; country and year), holding for each count the maximum of
\* that column over the group; stats_by_country never returns more rows
\* than the input has countries.
C14_GroupMaxima ==
    op.name \in {"stats_by_country", "stats_by_month", "stats_by_year"} =>
        /\ IsTable(result)
        /\ {C14_KeyOfResult(result.rows[i]) : i \in DOMAIN result.rows}
             = {C14_KeyOfInput(arg.rows[i]) : i \in DOMAIN arg.rows}
        /\ \A i, j \in DOMAIN result.rows :
             C14_KeyOfResult(result.rows[i]) = C14_KeyOfResult(result.rows[j]) => i = j
        /\ \A i \in DOMAIN result.rows : \A col \in Range(StatCols) :
             LET vals == C14_GroupValues(C14_KeyOfResult(result.rows[i]), col)
             IN  result.rows[i][col] \in vals /\ \A v \in vals : v <= result.rows[i][col]
        /\ op.name = "stats_by_country" =>
             Len(result.rows) <= Cardinality({arg.rows[i].country : i \in DOMAIN arg.rows})

\* A monthly result that merged two days of one month, its confirmed
\* maximum from one row and its deaths maximum from another, beside a row
\* for another month of the same year.
C14_Witness ==
    /\ op.name = "stats_by_month"
    /\ IsTable(result)
    /\ Len(result.rows) = 2
    /\ Len(arg.rows) = 4
    /\ \E i \in DOMAIN result.rows :
         /\ result.rows[i].month_year = <<2021, 3>>
         /\ result.rows[i].confirmed_cases = 120
         /\ result.rows[i].deaths_cases = 9
    /\ \E i \in DOMAIN result.rows : result.rows[i].month_year = <<2021, 4>>

\* the handlers that go to the persistence store
C17_StoreOps ==
    {"handle_connect_db", "insert_data_into_db", "truncate_covid_data_table",
     "load_data_from_db", "viz_load_data"}

\* C17: when a handler that goes to the store gets no connection, it shows
\* one failure message, has tried to connect once, and leaves the loaded
\* tables as they were.
C17_ConnectFailureShown ==
    [][(op'.name \in C17_StoreOps /\ ~op'.connected) =>
          /\ op'.status = "failed"
          /\ ~op'.uncaught
          /\ op'.attempts = 1
          /\ df' = df
          /\ viz_df' = viz_df]_vars

\* C18: every persistence operation closes the connection it opened before
\* it returns, also when a statement fails: between two requests no
\* connection is open, so no request opens a second one beside it.
C18_ConnectionsClosed == conns = 0

\* C19: save_report writes the summary block if and only if the table has
\* the columns country, confirmed_cases, deaths_cases, recovered_cases and
\* none of month_year, year, date; of the statistics of the GUI that is
\* Country Stats and Date Range and no other.
C19_SummaryIff ==
    op.name = "save_report" =>
        /\ (out.summary # NoSummary) <=>
              /\ \A col \in {"country", "confirmed_cases", "deaths_cases", "recovered_cases"} :
                    \E k \in DOMAIN arg.cols : arg.cols[k] = col
              /\ \A col \in {"month_year", "year", "date"} :
                    \A k \in DOMAIN arg.cols : arg.cols[k] # col
        /\ (out.summary # NoSummary) <=> op.selected \in {"Country Stats", "Date Range"}

\* A Country Stats report of two countries with its totals and both
\* countries in the top list, the larger count first.
C19_Witness ==
    /\ op.name = "save_report"
    /\ op.selected = "Country Stats"
    /\ out.summary # NoSummary
    /\ Len(arg.rows) = 2
    /\ out.summary.total_confirmed
         = arg.rows[1].confirmed_cases + arg.rows[2].confirmed_cases
    /\ Len(out.summary.top) = 2
    /\ out.summary.top[1][2] > out.summary.top[2][2]
    /\ out.summary.top[1][1] = arg.rows[2].country

\* the value read back has the magnitude of the value exported
C20_SameValue(dtype, shape, v, back) ==
    IF dtype = "int64" THEN back = v
    ELSE IF dtype = "object" THEN back.f = "text" /\ back.s = v
    ELSE CASE shape = "rounded" ->
                IF v.f = "finite"
                THEN back.f = "number" /\ ~back.int /\ back.v = v
                ELSE back.f = v.f
           [] shape = "ratio" -> back.f = "number" /\ ~back.int /\ back.v = v
           [] shape = "count" ->
                IF v = NaN THEN back.f = "nan"
                ELSE back.f = "number" /\ ~back.int /\ back.v = v

C26_WidthInRange ==
    /\ menu.width \in {50 + 10 * k : k \in 0..20}
    /\ menu.req \in {50 + 10 * k : k \in 0..20}

\* The sidebar at full width while an expand chain and a shrink chain of
\* earlier clicks are both still pending.
C26_Witness ==
    /\ menu.width = 250
    /\ \E i, j \in DOMAIN menu.timers :
         menu.timers[i].func = "expand_menu" /\ menu.timers[j].func = "shrink_menu"

\* no callback is pending and the packer has nothing to do
C27_Quiet == menu.timers = <<>> /\ menu.width = menu.req

\* the click of the user or the page switch
C27_UserActs == toggle_button \/ switcher("filter")

\* C27: once the user clicks no more, the expand and shrink callbacks stop
\* rescheduling themselves and the sidebar rests at the width that goes
\* with the toggle button: 250 when its command is shrink_menu_sidebar
\* (close icon), 50 when it is expand_menu_sidebar (open icon).
C27_AnimationSettles ==
    <>[][~C27_UserActs]_vars =>
        <>[](/\ C27_Quiet
             /\ menu.width = IF menu.command = "shrink_menu_sidebar" THEN 250 ELSE 50)

\* the rows of the table passed that belong to country c
C21_RowsOf(c) == SelectSeq(arg.rows, LAMBDA r : r.country = c)

\* each province's counts do not decrease from one report date to a later
C21_Cumulative(c) ==
    LET rows == C21_RowsOf(c)
    IN  \A i, j \in DOMAIN rows :
            (rows[i].province = rows[j].province
                /\ Ordinal(rows[i].date) <= Ordinal(rows[j].date))
            => \A col \in Range(StatCols) : rows[i][col] <= rows[j][col]

\* the rows filter_data reports, no filter set, for country c at its
\* latest report date
C21_LatestTotals(c) ==
    LET totals == filter_data(arg, "", "", "").ret.rows
    IN  {totals[k] : k \in {n \in DOMAIN totals :
            /\ totals[n].country = c
            /\ \A m \in DOMAIN totals :
                 totals[m].country = c
                    => Ordinal(totals[m].date) <= Ordinal(totals[n].date)}}

\* C21: for a country whose counts are cumulative, the confirmed, deaths
\* and recovered values stats_by_country reports are the country's totals
\* at its latest report date: the sums over its province rows of that date,
\* as filter_data reports them.
C21_LatestCumulativeTotals ==
    (op.name = "stats_by_country" /\ IsTable(result)) =>
        \A i \in DOMAIN result.rows :
            C21_Cumulative(result.rows[i].country) =>
                \A t \in C21_LatestTotals(result.rows[i].country) :
                    \A col \in Range(StatCols) : result.rows[i][col] = t[col]

\* C24: in any sequence of page switches and button presses, an aggregation
\* or filter operation is only ever applied to a table in the persisted
\* shape (columns country, province, date, confirmed_cases, ...); a table
\* loaded from CSV on the Loading page is never passed to one.
C24_PersistedShapeOnly ==
    op.name \in {StatFunction(s) : s \in StatNames} \cup {"filter_data"}
        => \A c \in Range(DbCols) : Contains(arg.cols, c)

\* C25: Clean Data, Insert into DB, Apply Filter and Generate Plot, pressed
\* on a page for which no table has been loaded since the program started,
\* only warn: no cleaning, insertion, filter or plot operation is invoked
\* and neither a table nor the database changes.
C25_UnloadedOnlyWarns ==
    [][(page \in {"data", "filter", "visualization"} /\ op'.name # "switcher")
          => (op'.name \in {"clean_data_refused", "insert_refused",
                            "apply_filter_refused", "plot_refused"}
              /\ df' = df /\ viz_df' = viz_df /\ db' = db)]_vars

\* C23: when Generate is pressed with no statistic selected, or the selected
\* statistic raises an exception, the handler shows at most one message and
\* returns with the displayed table, the status line and the Export and
\* Generate Report buttons unchanged, and no further exception is raised.
C23_NoTableLeavesPage ==
    [][(op'.name \in {StatFunction(s) : s \in StatNames \cup {"Select Stat"}}
        /\ ~IsTable(result'))
          => (op'.messages <= 1 /\ ~op'.uncaught /\ view' = view)]_vars

\* C22: when the cleaned table has been inserted twice without a Clear
\* Table in between, an aggregation or a filter over the table loaded from
\* the database returns what it returns after a single insert.
C22_NoDoubleCounting ==
    /\ op.name \in {StatFunction(s) : s \in StatNames} \cup {"filter_data"}
    /\ Contains(arg.cols, "country")
    /\ Len(arg.rows) = 2
    /\ arg.rows[1] = arg.rows[2]
    => LET once == Table(arg.cols, arg.dtype, <<arg.rows[1]>>)
       IN  result = IF op.name = "filter_data"
                    THEN filter_data(once, op.year, op.month, op.country).ret
                    ELSE StatCall(op.selected, once, op.start_date, op.end_date).ret
====
